---- MODULE Spec2Model ----
(***************************************************************************)
(* Cache layer of the movie catalogue service:                             *)
(*   MemoryCache  (src/src/infrastructure/cache/memory_cache.py)           *)
(*   RedisCache   (src/src/infrastructure/cache/redis_cache.py)            *)
(*   CacheManager (src/src/infrastructure/cache/cache_manager.py)          *)
(* Every handler is one action: the handlers of MemoryCache contain no     *)
(* await, and a CacheManager handler is followed to its return.            *)
(***************************************************************************)
EXTENDS Integers, Sequences, FiniteSets, TLC

VARIABLES
    now,            \* time.time(), in seconds
    client_class,   \* the class the name RedisCache is bound to in cache_manager
    use_redis,      \* CacheManager._use_redis
    redis_cache,    \* CacheManager._redis_cache: "None", or a client whose _redis is unset / set
    server,         \* the key-value service behind the client: key -> stored text
    memory_cache,   \* the MemoryCache object (CacheManager._memory_cache, or a stand-alone one)
    pc,             \* position of the calling task: "idle", or "blocked" inside a call
    last,           \* the call that produced this state, with what it returned
    threads,        \* callers of one MemoryCache running in threads: the lock and their positions
    repo,           \* a movie repository: its fields, the file or table it reads
    result          \* the repository call that produced this state, with what it returned

vars == <<now, client_class, use_redis, redis_cache, server, memory_cache, pc, last,
          threads, repo, result>>

\* the variables of the cache objects, of the threads and of the repositories
cache_vars == <<now, client_class, use_redis, redis_cache, server, memory_cache, pc, last>>
thread_vars == <<threads>>
repo_vars == <<repo, result>>

-----------------------------------------------------------------------------
(* Bounds of the model *)

\* max_size of the MemoryCache objects (the constructor's default is 1000)
MaxSize == 2
\* how many times the clock is advanced in one behaviour
MaxTicks == 2
\* how many cleanup intervals pass while the threads run
MaxSweeps == 1
\* pages and page sizes the callers of the repositories ask for
MaxPage == 2
MaxLimit == 2
\* how many times the CSV file is written anew
MaxEdits == 1
\* how many entries the CSV file holds at most when create is called
MaxCreates == 3
\* the largest count of ratings in one bin of a Movie
MaxBin == 1
\* the largest limit of find_related_movies
MaxRelated == 3
\* how many tasks call get_cache_manager
MaxTasks == 4
\* max_size of the MemoryCache whose keys are cleared by pattern
PatternMaxSize == 3

(* Program constants *)

\* MemoryCache.__init__: default_ttl
DefaultTTL == 3600
\* MemoryCache.__init__: self._cleanup_interval
CleanupInterval == 300
\* RedisCache.__init__: self._default_ttl
RedisDefaultTTL == 3600

-----------------------------------------------------------------------------
(* Inputs *)

\* cache keys, as sequences of characters
Keys == { <<"a">>, <<"a", "b">>, <<"b">> }
\* patterns given to clear_pattern
Patterns == { <<"a">>, <<"a", "*">>, <<"b">> }
\* cached Python values, by their repr
Values == { "(1, 2)" }
\* the ttl argument: <<>> is None (the parameter's default), <<n>> is the int n
TTLArgs == { <<>>, <<0>>, <<-100>>, <<100>> }
\* by how much the clock advances between two calls
TickSteps == { 100, 300 }
\* the keys, patterns and ttls the callers of the manager use
ManagerKeys == { <<"a">>, <<"a", "b">> }
ManagerPatterns == { <<"a">>, <<"a", "*">> }
ManagerTTLArgs == { <<>>, <<-100>>, <<100>> }

None == "None"
Nil == "nil"

\* the lists of Movie objects the repositories load, by name
CatalogNames == { "fixture", "nine" }
\* such a list after json.dumps(default=str) and json.loads: the list of the strings
\* str(movie)
JsonNames == { "fixture_json", "nine_json" }
JsonOf(name) == IF name = "fixture" THEN "fixture_json" ELSE "nine_json"
SourceOf(json) == IF json = "fixture_json" THEN "fixture" ELSE "nine"

-----------------------------------------------------------------------------
(* Python helpers *)

\* `ttl or default`: None and 0 are falsy
PyOr(ttl, default) == IF ttl = <<>> THEN default
                      ELSE IF ttl[1] = 0 THEN default ELSE ttl[1]

\* `pattern in key` on str: substring test
PyIn(pattern, key) ==
    \E i \in 1..(Len(key) + 1) :
        /\ i + Len(pattern) - 1 <= Len(key)
        /\ SubSeq(key, i, i + Len(pattern) - 1) = pattern

\* json.dumps(value, default=str): a tuple is written as an array, an object that
\* JSON does not know as the string str(object)
json_dumps(v) == IF v = "(1, 2)" THEN "[1, 2]"
                 ELSE IF v \in CatalogNames THEN JsonOf(v) ELSE v
\* json.loads(text): an array is read as a list
json_loads(s) == s

-----------------------------------------------------------------------------
(* dict operations on MemoryCache._cache, kept in insertion order *)

DictKeys(c) == { c[i].key : i \in DOMAIN c }
DictHas(c, k) == k \in DictKeys(c)
DictIndex(c, k) == CHOOSE i \in DOMAIN c : c[i].key = k
DictGet(c, k) == c[DictIndex(c, k)]
DictSet(c, k, v, e) ==
    IF DictHas(c, k)
    THEN [c EXCEPT ![DictIndex(c, k)] = [key |-> k, value |-> v, expiry |-> e]]
    ELSE Append(c, [key |-> k, value |-> v, expiry |-> e])
DictDel(c, k) == SelectSeq(c, LAMBDA x : x.key # k)

-----------------------------------------------------------------------------
(* MemoryCache *)

\* no MemoryCache object
NoMemoryCache == [made |-> FALSE, cache |-> <<>>, last_cleanup |-> 0, max_size |-> 0]

\* MemoryCache.__init__
MemoryCache_init(size, t) ==
    [made |-> TRUE, cache |-> <<>>, last_cleanup |-> t, max_size |-> size]

\* MemoryCache._cleanup_expired: the sweep, at most once per interval
cleanup_expired(mc, t) ==
    IF t - mc.last_cleanup < CleanupInterval
    THEN mc
    ELSE [mc EXCEPT !.cache = SelectSeq(mc.cache, LAMBDA x : ~(t > x.expiry)),
                    !.last_cleanup = t]

\* position of entry i in sorted(items, key=expiry): sorted is stable
SortRank(c, i) ==
    Cardinality({ j \in DOMAIN c :
        \/ c[j].expiry < c[i].expiry
        \/ (c[j].expiry = c[i].expiry /\ j < i) })

\* the body of the eviction pass: drop the first max(1, n // 10) of the sorted items
EvictOldest(c) ==
    LET n == Len(c)
        to_remove == IF n \div 10 > 1 THEN n \div 10 ELSE 1
        keep == { i \in DOMAIN c : SortRank(c, i) >= to_remove }
    IN  SelectSeq(c, LAMBDA x : \E i \in keep : c[i] = x)

\* MemoryCache._evict_if_needed with the eviction pass left out
evict_if_needed_never(mc, caller_holds_lock) == [mc |-> mc, blocked |-> FALSE]

\* MemoryCache._evict_if_needed as it would run with a lock that its holder can take
\* again: the eviction pass runs inside set
evict_if_needed_reentrant(mc, caller_holds_lock) ==
    IF Len(mc.cache) >= mc.max_size
    THEN [mc |-> [mc EXCEPT !.cache = EvictOldest(mc.cache)], blocked |-> FALSE]
    ELSE [mc |-> mc, blocked |-> FALSE]

\* MemoryCache._evict_if_needed, called by a task that holds the lock or not:
\* `with self._lock` on a threading.Lock the caller already holds never returns
evict_if_needed(mc, caller_holds_lock) ==
    IF Len(mc.cache) >= mc.max_size
    THEN IF caller_holds_lock
         THEN [mc |-> mc, blocked |-> TRUE]
         ELSE [mc |-> [mc EXCEPT !.cache = EvictOldest(mc.cache)], blocked |-> FALSE]
    ELSE [mc |-> mc, blocked |-> FALSE]

\* MemoryCache.get
MemoryCache_get(mc, key, t) ==
    LET swept == cleanup_expired(mc, t)
    IN  IF DictHas(swept.cache, key)
        THEN IF t < DictGet(swept.cache, key).expiry
             THEN [mc |-> swept, ret |-> DictGet(swept.cache, key).value]
             ELSE [mc |-> [swept EXCEPT !.cache = DictDel(swept.cache, key)], ret |-> None]
        ELSE [mc |-> swept, ret |-> None]

\* MemoryCache.set: the entry is stored and the eviction check made under the lock
MemoryCache_set(mc, key, value, ttl, t) ==
    LET expiry == t + PyOr(ttl, DefaultTTL)
        stored == [mc EXCEPT !.cache = DictSet(mc.cache, key, value, expiry)]
        evicted == evict_if_needed(stored, TRUE)
    IN  [mc |-> evicted.mc, ret |-> ~evicted.blocked, blocked |-> evicted.blocked]

\* MemoryCache.delete
MemoryCache_delete(mc, key) ==
    IF DictHas(mc.cache, key)
    THEN [mc |-> [mc EXCEPT !.cache = DictDel(mc.cache, key)], ret |-> TRUE]
    ELSE [mc |-> mc, ret |-> FALSE]

\* MemoryCache.exists
MemoryCache_exists(mc, key, t) ==
    LET swept == cleanup_expired(mc, t)
    IN  [mc |-> swept,
         ret |-> DictHas(swept.cache, key) /\ t < DictGet(swept.cache, key).expiry]

\* MemoryCache.clear_pattern matching the pattern at the start of the key only
MemoryCache_clear_pattern_prefix(mc, pattern) ==
    LET keys_to_remove == { k \in DictKeys(mc.cache) :
                              /\ Len(pattern) <= Len(k)
                              /\ SubSeq(k, 1, Len(pattern)) = pattern }
    IN  [mc |-> [mc EXCEPT !.cache = SelectSeq(mc.cache, LAMBDA x : x.key \notin keys_to_remove)],
         ret |-> Cardinality(keys_to_remove)]

\* MemoryCache.clear_pattern
MemoryCache_clear_pattern(mc, pattern) ==
    LET keys_to_remove == { k \in DictKeys(mc.cache) : PyIn(pattern, k) }
    IN  [mc |-> [mc EXCEPT !.cache = SelectSeq(mc.cache, LAMBDA x : x.key \notin keys_to_remove)],
         ret |-> Cardinality(keys_to_remove)]

-----------------------------------------------------------------------------
(* The record of a call *)

\* no threads, no repository, no repository call
NoThreads == "None"
NoRepo == "None"
NoResult == "None"

NoCall == [op |-> "none", key |-> <<>>, value |-> None, ttl |-> <<>>, val |-> None,
           ok |-> FALSE, count |-> 0, raised |-> FALSE, failed |-> FALSE,
           touched |-> {}, mode |-> "none"]

-----------------------------------------------------------------------------
(* A stand-alone MemoryCache and its callers *)

MCFrame == UNCHANGED <<client_class, use_redis, redis_cache, server, thread_vars, repo_vars>>

MC_Get(key) ==
    /\ pc = "idle" /\ memory_cache.made
    /\ LET r == MemoryCache_get(memory_cache, key, now)
       IN  /\ memory_cache' = r.mc
           /\ last' = [NoCall EXCEPT !.op = "mc_get", !.key = key, !.val = r.ret]
    /\ UNCHANGED <<now, pc>> /\ MCFrame

MC_Set(key, value, ttl) ==
    /\ pc = "idle" /\ memory_cache.made
    /\ LET r == MemoryCache_set(memory_cache, key, value, ttl, now)
       IN  /\ memory_cache' = r.mc
           /\ pc' = IF r.blocked THEN "blocked" ELSE "idle"
           /\ last' = [NoCall EXCEPT !.op = "mc_set", !.key = key, !.value = value,
                                     !.ttl = ttl, !.ok = r.ret]
    /\ UNCHANGED now /\ MCFrame

MC_Delete(key) ==
    /\ pc = "idle" /\ memory_cache.made
    /\ LET r == MemoryCache_delete(memory_cache, key)
       IN  /\ memory_cache' = r.mc
           /\ last' = [NoCall EXCEPT !.op = "mc_delete", !.key = key, !.ok = r.ret]
    /\ UNCHANGED <<now, pc>> /\ MCFrame

MC_Exists(key) ==
    /\ pc = "idle" /\ memory_cache.made
    /\ LET r == MemoryCache_exists(memory_cache, key, now)
       IN  /\ memory_cache' = r.mc
           /\ last' = [NoCall EXCEPT !.op = "mc_exists", !.key = key, !.ok = r.ret]
    /\ UNCHANGED <<now, pc>> /\ MCFrame

MC_ClearPattern(pattern) ==
    /\ pc = "idle" /\ memory_cache.made
    /\ LET r == MemoryCache_clear_pattern(memory_cache, pattern)
       IN  /\ memory_cache' = r.mc
           /\ last' = [NoCall EXCEPT !.op = "mc_clear_pattern", !.key = pattern,
                                     !.count = r.ret]
    /\ UNCHANGED <<now, pc>> /\ MCFrame

\* the least number of steps of the clock that reach t
TickCount(t) == (t \div 300) + ((t % 300) \div 100)

\* the clock advances between two calls; only a MemoryCache reads it, so the
\* time that passes before there is one is left out
Tick(d) ==
    /\ pc = "idle" /\ memory_cache.made
    /\ TickCount(now) < MaxTicks
    /\ now' = now + d
    /\ last' = [NoCall EXCEPT !.op = "tick"]
    /\ UNCHANGED <<client_class, use_redis, redis_cache, server, memory_cache, pc>>
    /\ UNCHANGED <<thread_vars, repo_vars>>

InitMC ==
    /\ now = 0
    /\ client_class = "RedisCache"
    /\ use_redis = TRUE
    /\ redis_cache = "None"
    /\ server = [k \in Keys |-> Nil]
    /\ memory_cache = MemoryCache_init(MaxSize, 0)
    /\ pc = "idle"
    /\ last = NoCall
    /\ threads = NoThreads /\ repo = NoRepo /\ result = NoResult

NextMC ==
    \/ \E k \in Keys : MC_Get(k)
    \/ \E k \in Keys, v \in Values, ttl \in TTLArgs : MC_Set(k, v, ttl)
    \/ \E k \in Keys : MC_Delete(k)
    \/ \E k \in Keys : MC_Exists(k)
    \/ \E p \in Patterns : MC_ClearPattern(p)
    \/ \E d \in TickSteps : Tick(d)

SpecMC == InitMC /\ [][NextMC]_vars

\* a MemoryCache large enough to hold several keys at once, written and cleared by
\* pattern at one moment of time
InitCP ==
    /\ now = 0
    /\ client_class = "RedisCache"
    /\ use_redis = TRUE
    /\ redis_cache = "None"
    /\ server = [k \in Keys |-> Nil]
    /\ memory_cache = MemoryCache_init(PatternMaxSize, 0)
    /\ pc = "idle"
    /\ last = NoCall
    /\ threads = NoThreads /\ repo = NoRepo /\ result = NoResult

NextCP ==
    \/ \E k \in Keys, v \in Values, ttl \in TTLArgs : MC_Set(k, v, ttl)
    \/ \E k \in Keys : MC_Delete(k)
    \/ \E p \in Patterns : MC_ClearPattern(p)

SpecCP == InitCP /\ [][NextCP]_vars

-----------------------------------------------------------------------------
(* One MemoryCache called from several threads. A step is what a thread does     *)
(* between two points where another thread may run: taking the lock, the block   *)
(* under the lock, releasing it, and each statement executed outside the lock.   *)

Threads == { "t1", "t2" }
\* the ttls the threads pass to set
ThreadTTLArgs == { <<>>, <<100>> }

\* self._lock when no thread holds it
Free == "free"

\* a thread that is not inside a call
IdleThread == [pc |-> "idle", op |-> "none", key |-> <<>>, value |-> None, ttl |-> <<>>,
               current_time |-> 0]

\* no access to the shared fields of the cache
NoAccess == [thread |-> "none", fields |-> {}, holder |-> Free]

\* the `with self._lock` block of get: lines 63-68 and the return that follows
get_locked(mc, key, t) ==
    IF DictHas(mc.cache, key)
    THEN IF t < DictGet(mc.cache, key).expiry
         THEN [mc |-> mc, ret |-> DictGet(mc.cache, key).value]
         ELSE [mc |-> [mc EXCEPT !.cache = DictDel(mc.cache, key)], ret |-> None]
    ELSE [mc |-> mc, ret |-> None]

\* the `with self._lock` block of exists: lines 104-106 and the return that follows
exists_locked(mc, key, t) ==
    [mc |-> mc, ret |-> DictHas(mc.cache, key) /\ t < DictGet(mc.cache, key).expiry]

\* the `with self._lock` block of _cleanup_expired: lines 35-42
cleanup_locked(mc, current_time) ==
    [mc EXCEPT !.cache = SelectSeq(mc.cache, LAMBDA x : ~(current_time > x.expiry)),
               !.last_cleanup = current_time]

ThreadFrame ==
    UNCHANGED <<now, client_class, use_redis, redis_cache, server, pc, last, repo_vars>>

\* what a thread step leaves: the thread's record, the lock, the access it made
ThreadStep(i, th, lock, acc) ==
    threads' = [threads EXCEPT !.t[i] = th, !.lock = lock, !.acc = acc]

\* a thread calls an operation of the cache
T_Call(i, op, key, value, ttl) ==
    /\ threads.t[i].pc = "idle"
    /\ ThreadStep(i, [IdleThread EXCEPT
                        !.pc = IF op \in {"get", "exists"} THEN "check_sweep" ELSE "acquire",
                        !.op = op, !.key = key, !.value = value, !.ttl = ttl],
                  threads.lock, NoAccess)
    /\ UNCHANGED memory_cache /\ ThreadFrame

\* _cleanup_expired, lines 30-32: the time is read and compared with _last_cleanup
T_CheckSweep(i) ==
    /\ threads.t[i].pc = "check_sweep"
    /\ LET due == ~(now - memory_cache.last_cleanup < CleanupInterval)
       IN  ThreadStep(i, [threads.t[i] EXCEPT
                            !.pc = IF due THEN "acquire_sweep" ELSE "acquire",
                            !.current_time = IF due THEN now ELSE 0],
                      threads.lock,
                      [thread |-> i, fields |-> {"last_cleanup"}, holder |-> threads.lock])
    /\ UNCHANGED memory_cache /\ ThreadFrame

\* `with self._lock`: the thread waits until the lock is free and takes it; a thread
\* that holds the lock itself waits like any other
T_Acquire(i) ==
    /\ threads.t[i].pc \in {"acquire", "acquire_sweep", "acquire_evict"}
    /\ threads.lock = Free
    /\ ThreadStep(i, [threads.t[i] EXCEPT
                        !.pc = CASE threads.t[i].pc = "acquire" -> "locked"
                                 [] threads.t[i].pc = "acquire_sweep" -> "sweep"
                                 [] OTHER -> "evict"],
                  i, NoAccess)
    /\ UNCHANGED memory_cache /\ ThreadFrame

\* the block of _cleanup_expired under the lock, and the release that ends it
T_Sweep(i) ==
    /\ threads.t[i].pc = "sweep"
    /\ memory_cache' = cleanup_locked(memory_cache, threads.t[i].current_time)
    /\ ThreadStep(i, [threads.t[i] EXCEPT !.pc = "acquire"], Free,
                  [thread |-> i, fields |-> {"cache", "last_cleanup"},
                   holder |-> threads.lock])
    /\ ThreadFrame

\* the block of get, delete, exists, clear_pattern under the lock, the release and
\* the return
T_Locked(i) ==
    /\ threads.t[i].pc = "locked"
    /\ threads.t[i].op \in {"get", "delete", "exists", "clear_pattern"}
    /\ LET th == threads.t[i]
           r == CASE th.op = "get" -> get_locked(memory_cache, th.key, now)
                  [] th.op = "exists" -> exists_locked(memory_cache, th.key, now)
                  [] th.op = "delete" -> MemoryCache_delete(memory_cache, th.key)
                  [] OTHER -> MemoryCache_clear_pattern(memory_cache, th.key)
       IN  /\ memory_cache' = r.mc
           /\ ThreadStep(i, IdleThread, Free,
                         [thread |-> i, fields |-> {"cache"}, holder |-> threads.lock])
    /\ ThreadFrame

\* set, line 79: the entry is written under the lock; _evict_if_needed is called next
T_Store(i) ==
    /\ threads.t[i].pc = "locked"
    /\ threads.t[i].op = "set"
    /\ LET th == threads.t[i]
           expiry == now + PyOr(th.ttl, DefaultTTL)
       IN  memory_cache' = [memory_cache EXCEPT
                              !.cache = DictSet(memory_cache.cache, th.key, th.value, expiry)]
    /\ ThreadStep(i, [threads.t[i] EXCEPT !.pc = "check_size"], threads.lock,
                  [thread |-> i, fields |-> {"cache"}, holder |-> threads.lock])
    /\ ThreadFrame

\* _evict_if_needed, line 46: the size is compared with max_size; if the cache is not
\* full, set leaves its `with` block and returns
T_CheckSize(i) ==
    /\ threads.t[i].pc = "check_size"
    /\ LET full == Len(memory_cache.cache) >= memory_cache.max_size
       IN  ThreadStep(i, IF full THEN [threads.t[i] EXCEPT !.pc = "acquire_evict"]
                                 ELSE IdleThread,
                      IF full THEN threads.lock ELSE Free,
                      [thread |-> i, fields |-> {"cache"}, holder |-> threads.lock])
    /\ UNCHANGED memory_cache /\ ThreadFrame

\* the clock advances by one cleanup interval while the threads run
T_Tick ==
    /\ now < MaxSweeps * CleanupInterval
    /\ now' = now + CleanupInterval
    /\ threads' = [threads EXCEPT !.acc = NoAccess]
    /\ UNCHANGED <<client_class, use_redis, redis_cache, server, memory_cache, pc, last,
                   repo_vars>>

InitMT ==
    /\ now = 0
    /\ client_class = "RedisCache"
    /\ use_redis = TRUE
    /\ redis_cache = "None"
    /\ server = [k \in Keys |-> Nil]
    /\ memory_cache = MemoryCache_init(MaxSize, 0)
    /\ pc = "idle"
    /\ last = NoCall
    /\ threads = [lock |-> Free, t |-> [i \in Threads |-> IdleThread], acc |-> NoAccess]
    /\ repo = NoRepo /\ result = NoResult

NextMT ==
    \/ \E i \in Threads, op \in {"get", "exists", "delete"}, k \in ManagerKeys :
            T_Call(i, op, k, None, <<>>)
    \/ \E i \in Threads, k \in ManagerKeys, v \in Values, ttl \in ThreadTTLArgs :
            T_Call(i, "set", k, v, ttl)
    \/ \E i \in Threads, p \in ManagerPatterns : T_Call(i, "clear_pattern", p, None, <<>>)
    \/ \E i \in Threads : T_CheckSweep(i)
    \/ \E i \in Threads : T_Acquire(i)
    \/ \E i \in Threads : T_Sweep(i)
    \/ \E i \in Threads : T_Locked(i)
    \/ \E i \in Threads : T_Store(i)
    \/ \E i \in Threads : T_CheckSize(i)
    \/ T_Tick

SpecMT == InitMT /\ [][NextMT]_vars

\* the steps of a thread inside a call; the scheduler lets every thread run, and a
\* thread that waits for the lock gets it if it is free again and again
ThreadRuns(i) == T_CheckSweep(i) \/ T_Sweep(i) \/ T_Locked(i) \/ T_Store(i) \/ T_CheckSize(i)

SpecMTLive ==
    /\ SpecMT
    /\ \A i \in Threads : WF_vars(ThreadRuns(i)) /\ SF_vars(T_Acquire(i))

-----------------------------------------------------------------------------
(* The key-value service and its clients *)

\* the classes the manager may construct as its remote client: RedisCache itself,
\* a client that raises when the service cannot be reached, and a stub that
\* raises on every call
ClientClasses == { "RedisCache", "RaisingClient", "RaisingStub" }

\* redis KEYS pattern: glob matching, "*" matches any run of characters
RECURSIVE GlobMatch(_, _)
GlobMatch(p, k) ==
    IF p = <<>> THEN k = <<>>
    ELSE IF Head(p) = "*"
         THEN GlobMatch(Tail(p), k) \/ (k # <<>> /\ GlobMatch(p, Tail(k)))
         ELSE k # <<>> /\ Head(k) = Head(p) /\ GlobMatch(Tail(p), Tail(k))

\* RedisCache.connect: a failure is logged and leaves _redis unset; nothing is raised
RedisCache_connect(fail) ==
    [raised |-> FALSE, client |-> IF fail THEN "unconnected" ELSE "connected"]

\* RedisCache.get
RedisCache_get(client, srv, key, fail) ==
    IF client # "connected" THEN [raised |-> FALSE, failed |-> TRUE, ret |-> None]
    ELSE IF fail THEN [raised |-> FALSE, failed |-> TRUE, ret |-> None]
    ELSE [raised |-> FALSE, failed |-> FALSE,
          ret |-> IF srv[key] # Nil THEN json_loads(srv[key]) ELSE None]

\* RedisCache.set: SETEX refuses an expire time that is not positive
RedisCache_set(client, srv, key, value, ttl, fail) ==
    IF client # "connected" THEN [raised |-> FALSE, failed |-> TRUE, ret |-> FALSE, srv |-> srv]
    ELSE IF fail THEN [raised |-> FALSE, failed |-> TRUE, ret |-> FALSE, srv |-> srv]
    ELSE IF PyOr(ttl, RedisDefaultTTL) <= 0
         THEN [raised |-> FALSE, failed |-> FALSE, ret |-> FALSE, srv |-> srv]
         ELSE [raised |-> FALSE, failed |-> FALSE, ret |-> TRUE,
               srv |-> [srv EXCEPT ![key] = json_dumps(value)]]

\* RedisCache.delete: the number of keys DEL removed is not looked at
RedisCache_delete(client, srv, key, fail) ==
    IF client # "connected" THEN [raised |-> FALSE, failed |-> TRUE, ret |-> FALSE, srv |-> srv]
    ELSE IF fail THEN [raised |-> FALSE, failed |-> TRUE, ret |-> FALSE, srv |-> srv]
    ELSE [raised |-> FALSE, failed |-> FALSE, ret |-> TRUE, srv |-> [srv EXCEPT ![key] = Nil]]

\* RedisCache.exists
RedisCache_exists(client, srv, key, fail) ==
    IF client # "connected" THEN [raised |-> FALSE, failed |-> TRUE, ret |-> FALSE]
    ELSE IF fail THEN [raised |-> FALSE, failed |-> TRUE, ret |-> FALSE]
    ELSE [raised |-> FALSE, failed |-> FALSE, ret |-> srv[key] # Nil]

\* RedisCache.clear_pattern
RedisCache_clear_pattern(client, srv, pattern, fail) ==
    LET keys == { k \in Keys : srv[k] # Nil /\ GlobMatch(pattern, k) }
    IN  IF client # "connected" THEN [raised |-> FALSE, failed |-> TRUE, ret |-> 0, srv |-> srv]
        ELSE IF fail THEN [raised |-> FALSE, failed |-> TRUE, ret |-> 0, srv |-> srv]
        ELSE [raised |-> FALSE, failed |-> FALSE, ret |-> Cardinality(keys),
              srv |-> [k \in Keys |-> IF k \in keys THEN Nil ELSE srv[k]]]

\* whether a call on a client of class cls raises
Raises(cls, fail) == cls = "RaisingStub" \/ (cls = "RaisingClient" /\ fail)

\* the calls of the client the manager holds, by its class
Client_connect(cls, fail) ==
    IF Raises(cls, fail) THEN [raised |-> TRUE, client |-> "unconnected"]
    ELSE RedisCache_connect(IF cls = "RedisCache" THEN fail ELSE FALSE)

Client_get(cls, client, srv, key, fail) ==
    IF Raises(cls, fail) THEN [raised |-> TRUE, failed |-> TRUE, ret |-> None]
    ELSE RedisCache_get(client, srv, key, fail)

Client_set(cls, client, srv, key, value, ttl, fail) ==
    IF Raises(cls, fail) THEN [raised |-> TRUE, failed |-> TRUE, ret |-> FALSE, srv |-> srv]
    ELSE RedisCache_set(client, srv, key, value, ttl, fail)

Client_delete(cls, client, srv, key, fail) ==
    IF Raises(cls, fail) THEN [raised |-> TRUE, failed |-> TRUE, ret |-> FALSE, srv |-> srv]
    ELSE RedisCache_delete(client, srv, key, fail)

Client_exists(cls, client, srv, key, fail) ==
    IF Raises(cls, fail) THEN [raised |-> TRUE, failed |-> TRUE, ret |-> FALSE]
    ELSE RedisCache_exists(client, srv, key, fail)

Client_clear_pattern(cls, client, srv, pattern, fail) ==
    IF Raises(cls, fail) THEN [raised |-> TRUE, failed |-> TRUE, ret |-> 0, srv |-> srv]
    ELSE RedisCache_clear_pattern(client, srv, pattern, fail)

-----------------------------------------------------------------------------
(* CacheManager *)

\* CacheManager.get_cache_type
get_cache_type(use, rc, mc) ==
    IF use /\ rc # "None" THEN "redis"
    ELSE IF mc.made THEN "memory" ELSE "none"

CacheType == get_cache_type(use_redis, redis_cache, memory_cache)

\* what a handler of the manager leaves behind and hands back
Outcome(use, mc, srv) ==
    [use |-> use, mc |-> mc, srv |-> srv, val |-> None, ok |-> FALSE, count |-> 0,
     raised |-> FALSE, failed |-> FALSE, touched |-> {}, blocked |-> FALSE]

\* CacheManager.initialize
CacheManager_initialize(cls, mc, fail, t) ==
    LET c == Client_connect(cls, fail)
    IN  IF c.raised
        THEN [use |-> FALSE, rc |-> c.client, mc |-> MemoryCache_init(MaxSize, t),
              failed |-> TRUE]
        ELSE [use |-> TRUE, rc |-> c.client, mc |-> mc, failed |-> c.client # "connected"]

\* the except branch of get and set: _use_redis = False, and a MemoryCache if there is none
FallBack(mc, t) == IF mc.made THEN mc ELSE MemoryCache_init(MaxSize, t)

\* CacheManager.get with a reconnection added: the client is tried again after a
\* failover and the manager switches back to it when it answers
CacheManager_get_reconnects(cls, use, rc, mc, srv, key, fail, t) ==
    LET r == Client_get(cls, rc, srv, key, fail)
        g == MemoryCache_get(FallBack(mc, t), key, t)
    IN  IF rc # "None" /\ ~r.raised
        THEN [Outcome(TRUE, mc, srv) EXCEPT !.val = r.ret, !.failed = r.failed,
                                            !.touched = {"redis"}]
        ELSE [Outcome(FALSE, g.mc, srv) EXCEPT !.val = g.ret, !.failed = TRUE,
                                               !.touched = {"redis", "memory"}]

\* CacheManager.get without the test of _use_redis: the client is asked whenever
\* there is one
CacheManager_get_ignores_flag(cls, use, rc, mc, srv, key, fail, t) ==
    LET r == Client_get(cls, rc, srv, key, fail)
        g == MemoryCache_get(FallBack(mc, t), key, t)
    IN  IF rc # "None" /\ ~r.raised
        THEN [Outcome(use, mc, srv) EXCEPT !.val = r.ret, !.failed = r.failed,
                                           !.touched = {"redis"}]
        ELSE [Outcome(FALSE, g.mc, srv) EXCEPT !.val = g.ret, !.failed = TRUE,
                                               !.touched = {"redis", "memory"}]

\* CacheManager.get
CacheManager_get(cls, use, rc, mc, srv, key, fail, t) ==
    LET try_redis == use /\ rc # "None"
        r == Client_get(cls, rc, srv, key, fail)
        use1 == IF try_redis THEN FALSE ELSE use
        mc1 == IF try_redis THEN FallBack(mc, t) ELSE mc
        seen == IF try_redis THEN {"redis"} ELSE {}
        g == MemoryCache_get(mc1, key, t)
    IN  IF try_redis /\ ~r.raised
        THEN [Outcome(use, mc, srv) EXCEPT !.val = r.ret, !.failed = r.failed,
                                           !.touched = {"redis"}]
        ELSE IF mc1.made
             THEN [Outcome(use1, g.mc, srv) EXCEPT !.val = g.ret, !.failed = try_redis,
                                                   !.touched = seen \cup {"memory"}]
             ELSE [Outcome(use1, mc1, srv) EXCEPT !.failed = try_redis, !.touched = seen]

\* CacheManager.set writing through: the client is written whenever there is one,
\* and the MemoryCache whenever there is one
CacheManager_set_writes_both(cls, use, rc, mc, srv, key, value, ttl, fail, t) ==
    LET r == Client_set(cls, rc, srv, key, value, ttl, fail)
        caught == rc # "None" /\ r.raised
        success == rc # "None" /\ ~r.raised /\ r.ret
        use1 == IF caught THEN FALSE ELSE use
        mc1 == IF caught THEN FallBack(mc, t) ELSE mc
        m == MemoryCache_set(mc1, key, value, ttl, t)
    IN  IF mc1.made
        THEN [Outcome(use1, m.mc, r.srv) EXCEPT !.ok = success \/ m.ret,
                                                !.blocked = m.blocked,
                                                !.failed = r.failed,
                                                !.touched = {"redis", "memory"}]
        ELSE [Outcome(use1, mc1, r.srv) EXCEPT !.ok = success, !.failed = r.failed,
                                               !.touched = {"redis"}]

\* CacheManager.set
CacheManager_set(cls, use, rc, mc, srv, key, value, ttl, fail, t) ==
    LET try_redis == use /\ rc # "None"
        r == Client_set(cls, rc, srv, key, value, ttl, fail)
        caught == try_redis /\ r.raised
        success == try_redis /\ ~r.raised /\ r.ret
        use1 == IF caught THEN FALSE ELSE use
        mc1 == IF caught THEN FallBack(mc, t) ELSE mc
        srv1 == IF try_redis THEN r.srv ELSE srv
        seen == IF try_redis THEN {"redis"} ELSE {}
        m == MemoryCache_set(mc1, key, value, ttl, t)
    IN  IF ~success /\ mc1.made
        THEN [Outcome(use1, m.mc, srv1) EXCEPT !.ok = m.ret, !.blocked = m.blocked,
                                               !.failed = try_redis /\ r.failed,
                                               !.touched = seen \cup {"memory"}]
        ELSE [Outcome(use1, mc1, srv1) EXCEPT !.ok = success,
                                              !.failed = try_redis /\ r.failed,
                                              !.touched = seen]

\* CacheManager.delete: an exception of the client is logged, nothing else
CacheManager_delete(cls, use, rc, mc, srv, key, fail) ==
    LET try_redis == use /\ rc # "None"
        r == Client_delete(cls, rc, srv, key, fail)
        success == try_redis /\ ~r.raised /\ r.ret
        srv1 == IF try_redis THEN r.srv ELSE srv
        seen == IF try_redis THEN {"redis"} ELSE {}
        m == MemoryCache_delete(mc, key)
    IN  IF mc.made
        THEN [Outcome(use, m.mc, srv1) EXCEPT !.ok = success \/ m.ret,
                                              !.failed = try_redis /\ r.failed,
                                              !.touched = seen \cup {"memory"}]
        ELSE [Outcome(use, mc, srv1) EXCEPT !.ok = success,
                                            !.failed = try_redis /\ r.failed,
                                            !.touched = seen]

\* CacheManager.exists: an exception of the client is logged, nothing else
CacheManager_exists(cls, use, rc, mc, srv, key, fail, t) ==
    LET try_redis == use /\ rc # "None"
        r == Client_exists(cls, rc, srv, key, fail)
        seen == IF try_redis THEN {"redis"} ELSE {}
        m == MemoryCache_exists(mc, key, t)
    IN  IF try_redis /\ ~r.raised
        THEN [Outcome(use, mc, srv) EXCEPT !.ok = r.ret, !.failed = r.failed,
                                           !.touched = {"redis"}]
        ELSE IF mc.made
             THEN [Outcome(use, m.mc, srv) EXCEPT !.ok = m.ret, !.failed = try_redis,
                                                  !.touched = seen \cup {"memory"}]
             ELSE [Outcome(use, mc, srv) EXCEPT !.failed = try_redis, !.touched = seen]

\* CacheManager.clear_pattern: an exception of the client is logged, nothing else
CacheManager_clear_pattern(cls, use, rc, mc, srv, pattern, fail) ==
    LET try_redis == use /\ rc # "None"
        r == Client_clear_pattern(cls, rc, srv, pattern, fail)
        count == IF try_redis /\ ~r.raised THEN r.ret ELSE 0
        srv1 == IF try_redis THEN r.srv ELSE srv
        seen == IF try_redis THEN {"redis"} ELSE {}
        m == MemoryCache_clear_pattern(mc, pattern)
    IN  IF mc.made
        THEN [Outcome(use, m.mc, srv1) EXCEPT !.count = count + m.ret,
                                              !.failed = try_redis /\ r.failed,
                                              !.touched = seen \cup {"memory"}]
        ELSE [Outcome(use, mc, srv1) EXCEPT !.count = count,
                                            !.failed = try_redis /\ r.failed,
                                            !.touched = seen]

\* CacheManager.get_stats
CacheManager_get_stats(use, rc, mc) ==
    [type |-> get_cache_type(use, rc, mc),
     redis_available |-> use /\ rc # "None",
     has_memory |-> mc.made,
     size |-> Len(mc.cache)]

-----------------------------------------------------------------------------
(* The manager and its callers *)

\* the state a handler leaves, and the record of the call
Returns(o, call) ==
    /\ use_redis' = o.use
    /\ memory_cache' = o.mc
    /\ server' = o.srv
    /\ pc' = IF o.blocked THEN "blocked" ELSE "idle"
    /\ last' = [call EXCEPT !.val = o.val, !.ok = o.ok, !.count = o.count,
                            !.raised = o.raised, !.failed = o.failed,
                            !.touched = o.touched, !.mode = CacheType]
    /\ UNCHANGED <<now, client_class, redis_cache, thread_vars, repo_vars>>

\* get_cache_manager has constructed the manager and awaits initialize()
Initialize(fail) ==
    /\ pc = "idle" /\ redis_cache = "None" /\ ~memory_cache.made
    /\ LET i == CacheManager_initialize(client_class, memory_cache, fail, now)
       IN  /\ use_redis' = i.use
           /\ redis_cache' = i.rc
           /\ memory_cache' = i.mc
           /\ last' = [NoCall EXCEPT !.op = "initialize", !.failed = i.failed]
    /\ UNCHANGED <<now, client_class, server, pc, thread_vars, repo_vars>>

Ready == pc = "idle" /\ redis_cache # "None"

CM_Get(key, fail) ==
    /\ Ready
    /\ Returns(CacheManager_get(client_class, use_redis, redis_cache, memory_cache,
                                server, key, fail, now),
               [NoCall EXCEPT !.op = "get", !.key = key])

CM_Set(key, value, ttl, fail) ==
    /\ Ready
    /\ Returns(CacheManager_set(client_class, use_redis, redis_cache, memory_cache,
                                server, key, value, ttl, fail, now),
               [NoCall EXCEPT !.op = "set", !.key = key, !.value = value, !.ttl = ttl])

CM_Delete(key, fail) ==
    /\ Ready
    /\ Returns(CacheManager_delete(client_class, use_redis, redis_cache, memory_cache,
                                   server, key, fail),
               [NoCall EXCEPT !.op = "delete", !.key = key])

CM_Exists(key, fail) ==
    /\ Ready
    /\ Returns(CacheManager_exists(client_class, use_redis, redis_cache, memory_cache,
                                   server, key, fail, now),
               [NoCall EXCEPT !.op = "exists", !.key = key])

CM_ClearPattern(pattern, fail) ==
    /\ Ready
    /\ Returns(CacheManager_clear_pattern(client_class, use_redis, redis_cache,
                                          memory_cache, server, pattern, fail),
               [NoCall EXCEPT !.op = "clear_pattern", !.key = pattern])

CM_GetStats ==
    /\ Ready
    /\ LET st == CacheManager_get_stats(use_redis, redis_cache, memory_cache)
       IN  last' = [NoCall EXCEPT !.op = "get_stats", !.val = st.type,
                                  !.ok = st.redis_available, !.count = st.size,
                                  !.mode = CacheType]
    /\ UNCHANGED <<now, client_class, use_redis, redis_cache, server, memory_cache, pc>>
    /\ UNCHANGED <<thread_vars, repo_vars>>

\* the service drops a key whose time to live has run out
ServerExpire(key) ==
    /\ pc = "idle"
    /\ server[key] # Nil
    /\ server' = [server EXCEPT ![key] = Nil]
    /\ last' = [NoCall EXCEPT !.op = "server_expire", !.key = key]
    /\ UNCHANGED <<now, client_class, use_redis, redis_cache, memory_cache, pc>>
    /\ UNCHANGED <<thread_vars, repo_vars>>

Init ==
    /\ now = 0
    /\ client_class \in ClientClasses
    /\ use_redis = TRUE
    /\ redis_cache = "None"
    /\ server = [k \in Keys |-> Nil]
    /\ memory_cache = NoMemoryCache
    /\ pc = "idle"
    /\ last = NoCall
    /\ threads = NoThreads /\ repo = NoRepo /\ result = NoResult

Next ==
    \/ \E fail \in BOOLEAN : Initialize(fail)
    \/ \E k \in ManagerKeys, fail \in BOOLEAN : CM_Get(k, fail)
    \/ \E k \in ManagerKeys, v \in Values, ttl \in ManagerTTLArgs, fail \in BOOLEAN :
            CM_Set(k, v, ttl, fail)
    \/ \E k \in ManagerKeys, fail \in BOOLEAN : CM_Delete(k, fail)
    \/ \E k \in ManagerKeys, fail \in BOOLEAN : CM_Exists(k, fail)
    \/ \E p \in ManagerPatterns, fail \in BOOLEAN : CM_ClearPattern(p, fail)
    \/ CM_GetStats
    \/ \E k \in ManagerKeys : ServerExpire(k)
    \/ \E d \in TickSteps : Tick(d)

Spec == Init /\ [][Next]_vars

-----------------------------------------------------------------------------
(* Movie catalogues                                                              *)
(* A Movie is modelled by the fields the repositories read: movieId, title (its  *)
(* words, separated by blanks in the source), genres, ratings_count, and         *)
(* average_rating in tenths of a point.                                          *)

NewMovie(id, title, genres, count, rating) ==
    [movieId |-> id, title |-> title, genres |-> genres, ratings_count |-> count,
     average_rating |-> rating]

\* three entries: A {Action, Comedy}, B {Comedy}, C {Drama}
Fixture ==
    << NewMovie(1, <<"Toy", "Story", "(1995)">>, <<"Action", "Comedy">>, 10, 45),
       NewMovie(2, <<"Heat", "(1995)">>, <<"Comedy">>, 30, 30),
       NewMovie(3, <<"Toy", "Soldiers", "(1991)">>, <<"Drama">>, 20, 40) >>

\* nine entries; the second and the ninth are the comedies
Nine ==
    [i \in 1..9 |->
        NewMovie(10 + i,
                 IF i \in {2, 9} THEN <<"Toy", "Story", "(1995)">>
                 ELSE IF i \in {4, 5} THEN <<"Heat", "(1995)">> ELSE <<"Story">>,
                 IF i \in {2, 9} THEN <<"Comedy">> ELSE <<"Drama">>,
                 (i % 4) * 10,
                 IF i \in {3, 6} THEN 45 ELSE IF i = 7 THEN 40 ELSE 20 + i)]

Catalog(name) == IF name = "fixture" THEN Fixture ELSE Nine

\* the strings str(movie) of a list of movies
Reprs(list) == [i \in DOMAIN list |-> [repr |-> list[i]]]
FixtureReprs == Reprs(Fixture)
NineReprs == Reprs(Nine)

\* the elements of a list held by the repository or the cache
Items(v) ==
    CASE v = "fixture" -> Fixture
      [] v = "nine" -> Nine
      [] v = "fixture_json" -> FixtureReprs
      [] OTHER -> NineReprs

\* an element that has the attributes of a Movie; reading title, genres,
\* ratings_count or average_rating of any other element raises AttributeError
IsMovie(x) == "movieId" \in DOMAIN x
AllMovies(list) == \A i \in DOMAIN list : IsMovie(list[i])

\* str.lower on the words of the titles and of the queries
Lower(w) ==
    CASE w = "Toy" -> "toy"
      [] w = "Story" -> "story"
      [] w = "Heat" -> "heat"
      [] w = "Soldiers" -> "soldiers"
      [] w = "Zzz" -> "zzz"
      [] OTHER -> w

LowerWords(words) == [i \in DOMAIN words |-> Lower(words[i])]

-----------------------------------------------------------------------------
(* Python lists and sets *)

Min(a, b) == IF a < b THEN a ELSE b

\* list[start:end] with 0 <= start <= end
Slice(list, start, end) == SubSeq(list, start + 1, Min(end, Len(list)))

\* the elements of a sequence, each once, in the order of their first occurrence
RECURSIVE Distinct(_)
Distinct(seq) ==
    IF seq = <<>> THEN <<>>
    ELSE LET rest == Distinct(SubSeq(seq, 1, Len(seq) - 1))
             x == seq[Len(seq)]
         IN  IF \E i \in DOMAIN rest : rest[i] = x THEN rest ELSE Append(rest, x)

\* the ascending sequence of a set of integers
RECURSIVE Ascending(_)
Ascending(S) ==
    IF S = {} THEN <<>>
    ELSE LET m == CHOOSE x \in S : \A y \in S : x <= y
         IN  <<m>> \o Ascending(S \ {m})

\* the slot of a set's table of 8 slots that takes a small integer of hash h: the
\* slot h & 7, or the next free one of the probe sequence i -> (5i + 1) & 7
RECURSIVE FreeSlot(_, _)
FreeSlot(table, i) == IF table[i] = -1 THEN i ELSE FreeSlot(table, (5 * i + 1) % 8)

RECURSIVE TableOf(_)
TableOf(seq) ==
    IF seq = <<>> THEN [i \in 0..7 |-> -1]
    ELSE LET table == TableOf(SubSeq(seq, 1, Len(seq) - 1))
             x == seq[Len(seq)]
         IN  [table EXCEPT ![FreeSlot(table, x % 8)] = x]

\* set(iterable) of integers 0 <= x < 32, at most 18 of them, as the sequence in which
\* the set is iterated: a set of up to four elements keeps its table of 8 slots and is
\* iterated by slot; the fifth element enlarges the table to 32 slots, where every
\* element has its own slot
set_from(seq) ==
    LET d == Distinct(seq)
    IN  IF Len(d) >= 5 THEN Ascending({ d[i] : i \in DOMAIN d })
        ELSE LET table == TableOf(d)
             IN  SelectSeq([i \in 1..8 |-> table[i - 1]], LAMBDA x : x # -1)

Elems(s) == { s[i] : i \in DOMAIN s }

\* a &= b on sets: a new set, filled in the iteration order of the smaller operand
\* (of b when they are equal in size) with the elements found in the other one
set_and(a, b) ==
    IF Len(b) > Len(a)
    THEN set_from(SelectSeq(a, LAMBDA x : x \in Elems(b)))
    ELSE set_from(SelectSeq(b, LAMBDA x : x \in Elems(a)))

\* sorted(list, key=Key, reverse=True): descending, equal keys in their given order
SortedDescending(list, key) ==
    LET rank(i) == Cardinality({ j \in DOMAIN list :
                        \/ list[j][key] > list[i][key]
                        \/ (list[j][key] = list[i][key] /\ j < i) })
    IN  [p \in DOMAIN list |-> list[CHOOSE i \in DOMAIN list : rank(i) = p - 1]]

-----------------------------------------------------------------------------
(* PaginationParams and PaginatedResult *)

\* PaginationParams.__post_init__ accepts page >= 1 and 1 <= limit <= 100
ValidPagination(page, limit) == page >= 1 /\ limit >= 1 /\ limit <= 100

\* PaginationParams.offset
offset(page, limit) == (page - 1) * limit

\* PaginatedResult.total_pages, has_next, has_previous
total_pages(res) == (res.total + res.limit - 1) \div res.limit
has_next(res) == res.page < total_pages(res)
has_previous(res) == res.page > 1

\* OptimizedCsvMovieRepository._apply_pagination
apply_pagination(movies, page, limit) ==
    LET total == Len(movies)
        start_idx == offset(page, limit)
        end_idx == start_idx + limit
    IN  [data |-> Slice(movies, start_idx, end_idx), total |-> total,
         page |-> page, limit |-> limit]

-----------------------------------------------------------------------------
(* OptimizedCsvMovieRepository *)

\* the key under which the repository caches the loaded list: f"movies_data_{path}"
MoviesKey == <<"m">>
\* the ttl of that cache entry
MoviesTTL == 1800

\* self._search_index before it is built
NoIndex == [built |-> FALSE, title_lower |-> <<>>, genre |-> <<>>]

\* the words of a title as _build_search_index sees them: title.lower().split()
TitleTokens(m) == LowerWords(m.title)

\* the positions appended to index[...][w], in the order of the appends: the 0-based
\* position of an entry once for every occurrence of w among its tokens
RECURSIVE Postings(_, _)
Postings(tokens, w) ==
    IF tokens = <<>> THEN <<>>
    ELSE LET own == tokens[Len(tokens)]
             n == Cardinality({ k \in DOMAIN own : own[k] = w })
         IN  Postings(SubSeq(tokens, 1, Len(tokens) - 1), w)
                \o [k \in 1..n |-> Len(tokens) - 1]

AllTokens(tokens) == UNION { Elems(tokens[i]) : i \in DOMAIN tokens }

\* _build_search_index, lines 138-169: the index of a list of movies (the tags are
\* left out)
NewIndex(list) ==
    LET titles == [i \in DOMAIN list |-> TitleTokens(list[i])]
        genres == [i \in DOMAIN list |-> list[i].genres]
    IN  [built |-> TRUE,
         title_lower |-> [w \in AllTokens(titles) |-> Postings(titles, w)],
         genre |-> [g \in AllTokens(genres) |-> Postings(genres, g)]]

\* the indexes of the two catalogues
FixtureIndex == NewIndex(Fixture)
NineIndex == NewIndex(Nine)

\* OptimizedCsvMovieRepository._build_search_index: an index that exists is returned
\* as it is; a new one is built from the list given
build_search_index(index, list) ==
    IF index.built THEN [index |-> index, raised |-> FALSE]
    ELSE IF ~AllMovies(list) THEN [index |-> index, raised |-> TRUE]
    ELSE [index |-> IF list = Fixture THEN FixtureIndex
                    ELSE IF list = Nine THEN NineIndex ELSE NewIndex(list),
          raised |-> FALSE]

\* a search without any filter
NoCriteria == [title |-> <<>>, genre |-> <<>>, year |-> <<>>, min_rating |-> <<>>,
               max_rating |-> <<>>]

\* SearchCriteria.has_any_filters
has_any_filters(criteria) == criteria # NoCriteria

\* OptimizedCsvMovieRepository._extract_year_from_title: the title ends in (YYYY)
extract_year_from_title(title) ==
    LET w == title[Len(title)]
    IN  CASE w = "(1995)" -> <<1995>>
          [] w = "(1991)" -> <<1991>>
          [] OTHER -> <<>>

\* _filter_movies_optimized, lines 237-247: the loop over the words of the title filter
RECURSIVE title_candidates(_, _)
title_candidates(index, words) ==
    IF words = <<>> THEN <<>>
    ELSE LET before == title_candidates(index, SubSeq(words, 1, Len(words) - 1))
             word == words[Len(words)]
         IN  IF word \in DOMAIN index.title_lower
             THEN IF before = <<>>
                  THEN set_from(index.title_lower[word])
                  ELSE set_and(before, set_from(index.title_lower[word]))
             ELSE before

\* the remaining filters with a minimum rating that the entry must exceed
PassesRemaining_exclusive(movie, criteria) ==
    /\ criteria.year # <<>> => extract_year_from_title(movie.title) = criteria.year
    /\ criteria.min_rating # <<>> => ~(movie.average_rating <= criteria.min_rating[1])
    /\ criteria.max_rating # <<>> => ~(movie.average_rating > criteria.max_rating[1])

\* _filter_movies_optimized, lines 261-270: the filters applied entry by entry
PassesRemaining(movie, criteria) ==
    /\ criteria.year # <<>> => extract_year_from_title(movie.title) = criteria.year
    /\ criteria.min_rating # <<>> => ~(movie.average_rating < criteria.min_rating[1])
    /\ criteria.max_rating # <<>> => ~(movie.average_rating > criteria.max_rating[1])

\* OptimizedCsvMovieRepository._filter_movies_optimized
filter_movies_optimized(index, list, criteria) ==
    LET b == build_search_index(index, list)
        all == set_from([i \in 1..Len(list) |-> i - 1])
        tc == title_candidates(b.index, LowerWords(criteria.title))
        after_title == IF criteria.title # <<>> /\ tc # <<>> THEN set_and(all, tc) ELSE all
        genre_known == criteria.genre[1] \in DOMAIN b.index.genre
        candidate_indices ==
            IF criteria.genre = <<>> THEN after_title
            ELSE set_and(after_title, set_from(b.index.genre[criteria.genre[1]]))
        candidates == [k \in DOMAIN candidate_indices |-> list[candidate_indices[k] + 1]]
        reads_entries == criteria.year # <<>> \/ criteria.min_rating # <<>>
                            \/ criteria.max_rating # <<>>
    IN  IF ~has_any_filters(criteria) THEN [index |-> index, data |-> list, raised |-> FALSE]
        ELSE IF b.raised THEN [index |-> b.index, data |-> <<>>, raised |-> TRUE]
        ELSE IF criteria.genre # <<>> /\ ~genre_known
             THEN [index |-> b.index, data |-> <<>>, raised |-> FALSE]
        ELSE IF reads_entries /\ candidates # <<>> /\ ~AllMovies(candidates)
             THEN [index |-> b.index, data |-> <<>>, raised |-> TRUE]
        ELSE [index |-> b.index,
              data |-> IF reads_entries
                       THEN SelectSeq(candidates, LAMBDA m : PassesRemaining(m, criteria))
                       ELSE candidates,
              raised |-> FALSE]

\* a value of the cache that is true in a condition: a list that is not empty
Truthy(v) == v # None /\ Len(Items(v)) > 0

\* OptimizedCsvMovieRepository._should_reload_cache
should_reload_cache(r) == r.movies_cache = None \/ r.mtime > r.last_modified

\* OptimizedCsvMovieRepository._load_movies_async, the file being there and readable;
\* the manager is asked first, and the list read from the file is handed to it
load_movies_async(r, cls, use, rc, mc, srv, fail, t) ==
    LET cached_data == CacheManager_get(cls, use, rc, mc, srv, MoviesKey, fail, t).val
        stored == CacheManager_set(cls, use, rc, mc, srv, MoviesKey, r.file, <<MoviesTTL>>,
                                   fail, t)
    IN  IF Truthy(cached_data) /\ ~should_reload_cache(r)
        THEN [repo |-> [r EXCEPT !.movies_cache = cached_data], srv |-> srv,
              movies |-> cached_data]
        ELSE IF r.movies_cache # None /\ ~should_reload_cache(r)
             THEN [repo |-> r, srv |-> srv, movies |-> r.movies_cache]
             ELSE [repo |-> [r EXCEPT !.movies_cache = r.file, !.last_modified = r.mtime],
                   srv |-> stored.srv, movies |-> r.file]

\* what a call of the repository hands back
Answer(page, limit) ==
    [data |-> <<>>, total |-> 0, page |-> page, limit |-> limit, raised |-> FALSE]
Paginated(movies, page, limit) ==
    apply_pagination(movies, page, limit) @@ [raised |-> FALSE]
Raised(page, limit) == [Answer(page, limit) EXCEPT !.raised = TRUE]

\* OptimizedCsvMovieRepository.find_all
find_all(list, page, limit) == Paginated(list, page, limit)

\* OptimizedCsvMovieRepository.find_popular
find_popular(list, page, limit) ==
    IF list # <<>> /\ ~AllMovies(list) THEN Raised(page, limit)
    ELSE Paginated(SortedDescending(list, "ratings_count"), page, limit)

\* OptimizedCsvMovieRepository.find_highly_rated
find_highly_rated(list, page, limit) ==
    IF list # <<>> /\ ~AllMovies(list) THEN Raised(page, limit)
    ELSE Paginated(SortedDescending(SelectSeq(list, LAMBDA m : m.average_rating >= 40),
                                    "average_rating"),
                   page, limit)

\* OptimizedCsvMovieRepository.search, after the list is loaded
search(index, list, criteria, page, limit) ==
    LET f == filter_movies_optimized(index, list, criteria)
    IN  [index |-> f.index,
         answer |-> IF f.raised THEN Raised(page, limit) ELSE Paginated(f.data, page, limit)]

-----------------------------------------------------------------------------
(* SqliteMovieRepository *)

\* the orders in which ORDER BY average_rating DESC may return the rows
OrderedByRating(rows) ==
    { [p \in DOMAIN rows |-> rows[s[p]]] :
        s \in { f \in [DOMAIN rows -> DOMAIN rows] :
                    /\ \A p, q \in DOMAIN rows : p # q => f[p] # f[q]
                    /\ \A p, q \in DOMAIN rows :
                          p < q => rows[f[p]].average_rating >= rows[f[q]].average_rating } }

\* SqliteMovieRepository.find_highly_rated for one order of the rows: the count is
\* taken over the movies table, the page over the rows with average_rating >= 4.0
sqlite_find_highly_rated(table, ordered, page, limit) ==
    [data |-> Slice(ordered, offset(page, limit), offset(page, limit) + limit),
     total |-> Len(table), page |-> page, limit |-> limit, raised |-> FALSE]

-----------------------------------------------------------------------------
(* The repositories and their callers. The OptimizedCsvMovieRepository holds the *)
(* CacheManager that get_cache_manager() returned, whose client is a RedisCache. *)

\* the searches the callers make
WithTitle(words) == [NoCriteria EXCEPT !.title = words]
WithGenre(g) == [NoCriteria EXCEPT !.genre = <<g>>]
Searches ==
    { NoCriteria,
      WithTitle(<<"Toy">>), WithTitle(<<"toy", "story">>), WithTitle(<<"Zzz">>),
      WithTitle(<<"Toy", "Zzz">>), WithTitle(<<"Soldiers", "Heat">>),
      WithGenre("Comedy"), WithGenre("comedy"), WithGenre("Horror"),
      [WithTitle(<<"Toy">>) EXCEPT !.genre = <<"Comedy">>] }

Pages == 1..MaxPage
Limits == 1..MaxLimit

\* OptimizedCsvMovieRepository.__init__, with the CSV file that is read, and the
\* movies table of the SqliteMovieRepository, which holds the rows of that file
NewRepo(file) ==
    [file |-> file, mtime |-> 1, table |-> file,
     movies_cache |-> None, search_index |-> NoIndex, last_modified |-> 0]

NoAnswer == [op |-> "none", criteria |-> NoCriteria, list |-> None] @@ Answer(1, 1)

RepoFrame == UNCHANGED <<now, client_class, use_redis, redis_cache, memory_cache, pc, last,
                         thread_vars>>

\* _load_movies_async as the first step of a call, the service being out of reach or
\* not while the call lasts
Loaded(fail) ==
    load_movies_async(repo, client_class, use_redis, redis_cache, memory_cache, server,
                      fail, now)

R_FindAll(page, limit, fail) ==
    /\ ValidPagination(page, limit)
    /\ LET l == Loaded(fail)
       IN  /\ repo' = l.repo
           /\ server' = l.srv
           /\ result' = [op |-> "find_all", criteria |-> NoCriteria, list |-> l.movies]
                            @@ find_all(Items(l.movies), page, limit)
    /\ RepoFrame

R_FindPopular(page, limit, fail) ==
    /\ ValidPagination(page, limit)
    /\ LET l == Loaded(fail)
       IN  /\ repo' = l.repo
           /\ server' = l.srv
           /\ result' = [op |-> "find_popular", criteria |-> NoCriteria, list |-> l.movies]
                            @@ find_popular(Items(l.movies), page, limit)
    /\ RepoFrame

R_FindHighlyRated(page, limit, fail) ==
    /\ ValidPagination(page, limit)
    /\ LET l == Loaded(fail)
       IN  /\ repo' = l.repo
           /\ server' = l.srv
           /\ result' = [op |-> "find_highly_rated", criteria |-> NoCriteria,
                         list |-> l.movies]
                            @@ find_highly_rated(Items(l.movies), page, limit)
    /\ RepoFrame

R_Search(criteria, page, limit, fail) ==
    /\ ValidPagination(page, limit)
    /\ LET l == Loaded(fail)
           s == search(l.repo.search_index, Items(l.movies), criteria, page, limit)
       IN  /\ repo' = [l.repo EXCEPT !.search_index = s.index]
           /\ server' = l.srv
           /\ result' = [op |-> "search", criteria |-> criteria, list |-> l.movies]
                            @@ s.answer
    /\ RepoFrame

\* OptimizedCsvMovieRepository.clear_cache
R_ClearCache ==
    /\ repo.movies_cache # None
    /\ repo' = [repo EXCEPT !.movies_cache = None, !.search_index = NoIndex,
                            !.last_modified = 0]
    /\ result' = [NoAnswer EXCEPT !.op = "clear_cache"]
    /\ UNCHANGED server /\ RepoFrame

\* the CSV file is written anew with another catalogue
FileModified(name) ==
    /\ name # repo.file
    /\ repo.mtime <= MaxEdits
    /\ repo' = [repo EXCEPT !.file = name, !.mtime = @ + 1]
    /\ result' = [NoAnswer EXCEPT !.op = "file_modified"]
    /\ UNCHANGED server /\ RepoFrame

\* SqliteMovieRepository.find_highly_rated
S_FindHighlyRated(page, limit) ==
    /\ ValidPagination(page, limit)
    /\ \E ordered \in OrderedByRating(SelectSeq(Catalog(repo.table),
                                                LAMBDA m : m.average_rating >= 40)) :
          result' = [op |-> "sqlite_find_highly_rated", criteria |-> NoCriteria,
                     list |-> repo.table]
                        @@ sqlite_find_highly_rated(Catalog(repo.table), ordered, page, limit)
    /\ UNCHANGED <<repo, server>> /\ RepoFrame

\* the service drops the cached list when its ttl has run out
R_ServerExpire ==
    /\ server[MoviesKey] # Nil
    /\ server' = [server EXCEPT ![MoviesKey] = Nil]
    /\ result' = [NoAnswer EXCEPT !.op = "server_expire"]
    /\ UNCHANGED repo /\ RepoFrame

InitRepo ==
    /\ now = 0
    /\ client_class = "RedisCache"
    /\ use_redis = TRUE
    /\ redis_cache \in { "connected", "unconnected" }
    /\ server = [k \in {MoviesKey} |-> Nil]
    /\ memory_cache = NoMemoryCache
    /\ pc = "idle"
    /\ last = NoCall
    /\ threads = NoThreads
    /\ \E file \in CatalogNames : repo = NewRepo(file)
    /\ result = NoAnswer

NextRepo ==
    \/ \E p \in Pages, l \in Limits, fail \in BOOLEAN : R_FindAll(p, l, fail)
    \/ \E p \in Pages, l \in Limits, fail \in BOOLEAN : R_FindPopular(p, l, fail)
    \/ \E p \in Pages, l \in Limits, fail \in BOOLEAN : R_FindHighlyRated(p, l, fail)
    \/ \E c \in Searches, p \in Pages, l \in Limits, fail \in BOOLEAN :
            R_Search(c, p, l, fail)
    \/ R_ClearCache
    \/ \E name \in CatalogNames : FileModified(name)
    \/ \E p \in Pages, l \in Limits : S_FindHighlyRated(p, l)
    \/ R_ServerExpire

SpecRepo == InitRepo /\ [][NextRepo]_vars

-----------------------------------------------------------------------------
(* create of CsvMovieRepository and of SqliteMovieRepository. An entry is taken by *)
(* its movieId alone; every request works on a repository object of its own.     *)

\* the movieId of the entries handed to create
CreateIds == { "1", "01", "2", "x" }

\* str.isdigit, int(...) and str(...) on these identifiers
isdigit(id) == id \in { "1", "01", "2" }
int(id) == CASE id = "1" -> 1 [] id = "01" -> 1 [] id = "2" -> 2 [] OTHER -> 0
str(n) == CASE n = 1 -> "1" [] n = 2 -> "2" [] OTHER -> "0"

\* pd.read_csv on the movieId column, then str(row['movieId']): a column of digits
\* only is read as integers, any other column as the strings written
read_csv(rows) ==
    IF \A i \in DOMAIN rows : isdigit(rows[i])
    THEN [i \in DOMAIN rows |-> str(int(rows[i]))]
    ELSE rows

\* CsvMovieRepository._load_movies
load_movies(r) == IF r.movies_cache # <<>> THEN r.movies_cache[1] ELSE read_csv(r.file)

\* CsvMovieRepository.create: the list and the file after the call, and whether the
\* call raised
CsvMovieRepository_create(r, id) ==
    LET movies == load_movies(r)
    IN  IF \E i \in DOMAIN movies : movies[i] = id
        THEN [repo |-> [r EXCEPT !.movies_cache = <<movies>>], raised |-> TRUE]
        ELSE [repo |-> [r EXCEPT !.movies_cache = <<Append(movies, id)>>,
                                 !.file = Append(movies, id)],
              raised |-> FALSE]

\* SqliteMovieRepository.create: the movies table, by its primary key movieId
SqliteMovieRepository_create(r, id) ==
    LET movie_id == IF isdigit(id) THEN int(id) ELSE 0
    IN  IF movie_id \in r.table
        THEN [repo |-> r, raised |-> TRUE]
        ELSE [repo |-> [r EXCEPT !.table = @ \cup {movie_id}], raised |-> FALSE]

CreateFrame == UNCHANGED <<now, client_class, use_redis, redis_cache, server, memory_cache,
                           pc, last, thread_vars>>

\* CsvMovieRepository.create called by a request
C_Create(id) ==
    /\ Len(repo.file) < MaxCreates
    /\ LET c == CsvMovieRepository_create(repo, id)
       IN  /\ repo' = c.repo
           /\ result' = [op |-> "csv_create", id |-> id, raised |-> c.raised,
                         before |-> load_movies(repo)]
    /\ CreateFrame

\* CsvMovieRepository.__init__: the next request has a repository object of its own
C_New ==
    /\ repo.movies_cache # <<>>
    /\ repo' = [repo EXCEPT !.movies_cache = <<>>]
    /\ result' = [op |-> "csv_new", id |-> "", raised |-> FALSE, before |-> <<>>]
    /\ CreateFrame

\* SqliteMovieRepository.create called by a request
Q_Create(id) ==
    /\ LET c == SqliteMovieRepository_create(repo, id)
       IN  /\ repo' = c.repo
           /\ result' = [op |-> "sqlite_create", id |-> id, raised |-> c.raised,
                         before |-> <<>>]
    /\ CreateFrame

InitCreate ==
    /\ now = 0
    /\ client_class = "RedisCache"
    /\ use_redis = TRUE
    /\ redis_cache = "None"
    /\ server = [k \in Keys |-> Nil]
    /\ memory_cache = NoMemoryCache
    /\ pc = "idle"
    /\ last = NoCall
    /\ threads = NoThreads
    /\ \E rows \in { <<>>, <<"1">>, <<"x">> } :
          repo = [movies_cache |-> <<>>, file |-> rows,
                  table |-> { int(rows[i]) : i \in DOMAIN rows }]
    /\ result = [op |-> "none", id |-> "", raised |-> FALSE, before |-> <<>>]

NextCreate ==
    \/ \E id \in CreateIds : C_Create(id)
    \/ C_New
    \/ \E id \in CreateIds : Q_Create(id)

SpecCreate == InitCreate /\ [][NextCreate]_vars

-----------------------------------------------------------------------------
(* The Movie entity. Ratings are in tenths: 50 is 5.0.                        *)

\* the arguments given to Movie(...); the other fields take no part in _validate
MovieIds == { "", " ", "7" }
Titles == { "", "Heat" }
Averages == { -1, 0, 45, 50, 51 }
Bins == -1..MaxBin
Counts == -1..MaxBin + 1

MovieArgs(id, title, avg, count, b) ==
    [movieId |-> id, title |-> title, average_rating |-> avg, ratings_count |-> count,
     zero_to_one_ratings_count |-> b[1], one_to_two_ratings_count |-> b[2],
     two_to_three_ratings_count |-> b[3], three_to_four_ratings_count |-> b[4],
     four_to_five_ratings_count |-> b[5]]

\* str.strip() of these strings
strip(s) == IF s = " " THEN "" ELSE s

\* Movie._validate, lines 58-66: the sum of the five counts
total_ratings(m) ==
    m.zero_to_one_ratings_count + m.one_to_two_ratings_count
        + m.two_to_three_ratings_count + m.three_to_four_ratings_count
        + m.four_to_five_ratings_count

\* Movie._validate without the comparison of the sum with ratings_count
Movie_validate_without_sum(m) ==
    CASE m.movieId = "" \/ strip(m.movieId) = "" -> "Movie ID cannot be empty"
      [] m.title = "" \/ strip(m.title) = "" -> "Movie title cannot be empty"
      [] ~(0 <= m.average_rating /\ m.average_rating <= 50)
            -> "Movie rating must be between 0 and 5"
      [] m.ratings_count < 0 -> "Ratings count cannot be negative"
      [] OTHER -> "ok"

\* Movie._validate: the ValueError it raises, or "ok"
Movie_validate(m) ==
    CASE m.movieId = "" \/ strip(m.movieId) = "" -> "Movie ID cannot be empty"
      [] m.title = "" \/ strip(m.title) = "" -> "Movie title cannot be empty"
      [] ~(0 <= m.average_rating /\ m.average_rating <= 50)
            -> "Movie rating must be between 0 and 5"
      [] m.ratings_count < 0 -> "Ratings count cannot be negative"
      [] total_ratings(m) # m.ratings_count
            -> "Rating breakdown does not match total ratings count"
      [] OTHER -> "ok"

MovieFrame == UNCHANGED <<now, client_class, use_redis, redis_cache, server, memory_cache,
                          pc, last, thread_vars, repo>>

\* Movie(...): __post_init__ runs _validate, and the object exists if it raised nothing
M_Construct ==
    /\ result.op = "args"
    /\ result' = [result EXCEPT !.op = "Movie", !.error = Movie_validate(result.args)]
    /\ MovieFrame

InitMovie ==
    /\ now = 0
    /\ client_class = "RedisCache"
    /\ use_redis = TRUE
    /\ redis_cache = "None"
    /\ server = [k \in Keys |-> Nil]
    /\ memory_cache = NoMemoryCache
    /\ pc = "idle"
    /\ last = NoCall
    /\ threads = NoThreads
    /\ repo = NoRepo
    /\ \E id \in MovieIds, title \in Titles, avg \in Averages, count \in Counts,
          b \in [1..5 -> Bins] :
            result = [op |-> "args", args |-> MovieArgs(id, title, avg, count, b),
                      error |-> "ok"]

NextMovie == M_Construct

SpecMovie == InitMovie /\ [][NextMovie]_vars

-----------------------------------------------------------------------------
(* find_related_movies of the three repositories, each over a catalogue      *)
(* it has loaded                                                             *)

\* five entries: M and X share two genres, Y shares one with them and has the
\* better rating, Z shares none, W has no genres
RelatedCatalog ==
    << NewMovie(1, <<"Heat", "(1995)">>, <<"Action", "Comedy">>, 10, 40),
       NewMovie(2, <<"Toy", "Story", "(1995)">>, <<"Action", "Comedy">>, 10, 30),
       NewMovie(3, <<"Toy", "Soldiers", "(1991)">>, <<"Comedy">>, 10, 45),
       NewMovie(4, <<"Story">>, <<"Drama">>, 10, 50),
       NewMovie(5, <<"Toy">>, <<>>, 10, 20) >>

RelatedCatalogs == { RelatedCatalog, Fixture }

\* set(movie.genres) & set(other_movie.genres)
common_genres(movie, other) == Elems(movie.genres) \cap Elems(other.genres)

\* the entries other than movie that share a genre with it, in catalogue order
SharingGenre(movies, movie) ==
    SelectSeq(movies, LAMBDA o : o.movieId # movie.movieId /\ common_genres(movie, o) # {})

\* CsvMovieRepository.find_related_movies
CsvMovieRepository_find_related_movies(movies, movie, limit) ==
    Slice(SortedDescending(SharingGenre(movies, movie), "average_rating"), 0, limit)

\* related.sort(key=lambda x: (x[1], x[0].average_rating), reverse=True): the number
\* of common genres first, then the rating, equal keys in their given order
sort_by_common_and_rating(related, movie) ==
    LET n(i) == Cardinality(common_genres(movie, related[i]))
        before(j, i) ==
            \/ n(j) > n(i)
            \/ n(j) = n(i) /\ related[j].average_rating > related[i].average_rating
            \/ n(j) = n(i) /\ related[j].average_rating = related[i].average_rating /\ j < i
        rank(i) == Cardinality({ j \in DOMAIN related : before(j, i) })
    IN  [p \in DOMAIN related |-> related[CHOOSE i \in DOMAIN related : rank(i) = p - 1]]

\* OptimizedCsvMovieRepository.find_related_movies
OptimizedCsvMovieRepository_find_related_movies(movies, movie, limit) ==
    Slice(sort_by_common_and_rating(SharingGenre(movies, movie), movie), 0, limit)

\* MovieModel.genres.ilike('%genre%') for one of the first three genres of the movie.
\* No genre label of the catalogues is part of another one and all are written in
\* one case, so the pattern matches the rows that have the genre.
genre_conditions(movie, row) ==
    \E i \in 1..Min(3, Len(movie.genres)) : movie.genres[i] \in Elems(row.genres)

\* the rows the query of SqliteMovieRepository.find_related_movies selects: the
\* others matching a genre condition, or all the others when the movie has no genre
\* (ORDER BY random())
SqliteRelatedRows(movies, movie) ==
    SelectSeq(movies, LAMBDA row :
        /\ row.movieId # movie.movieId
        /\ (movie.genres # <<>> => genre_conditions(movie, row)))

\* SqliteMovieRepository.find_related_movies: the query has no ORDER BY on the
\* rating, so LIMIT keeps the first rows in whatever order the engine yields them
SqliteMovieRepository_find_related_movies(movies, movie, limit) ==
    LET rows == SqliteRelatedRows(movies, movie)
        k == Min(limit, Len(rows))
    IN  { [p \in 1..k |-> rows[order[p]]] :
            order \in { o \in [1..k -> DOMAIN rows] :
                            \A p, q \in 1..k : p # q => o[p] # o[q] } }

RelatedFrame == UNCHANGED <<now, client_class, use_redis, redis_cache, server,
                            memory_cache, pc, last, thread_vars, repo>>

Rel_Csv ==
    /\ result.op = "args"
    /\ result' = [result EXCEPT !.op = "csv_find_related_movies",
                    !.data = CsvMovieRepository_find_related_movies(
                                result.movies, result.movie, result.limit)]
    /\ RelatedFrame

Rel_Optimized ==
    /\ result.op = "args"
    /\ result' = [result EXCEPT !.op = "optimized_find_related_movies",
                    !.data = OptimizedCsvMovieRepository_find_related_movies(
                                result.movies, result.movie, result.limit)]
    /\ RelatedFrame

Rel_Sqlite ==
    /\ result.op = "args"
    /\ \E data \in SqliteMovieRepository_find_related_movies(
                        result.movies, result.movie, result.limit) :
            result' = [result EXCEPT !.op = "sqlite_find_related_movies", !.data = data]
    /\ RelatedFrame

InitRelated ==
    /\ now = 0
    /\ client_class = "RedisCache"
    /\ use_redis = TRUE
    /\ redis_cache = "None"
    /\ server = [k \in Keys |-> Nil]
    /\ memory_cache = NoMemoryCache
    /\ pc = "idle"
    /\ last = NoCall
    /\ threads = NoThreads
    /\ repo = NoRepo
    /\ \E movies \in RelatedCatalogs, limit \in 1..MaxRelated :
         \E i \in DOMAIN movies :
            result = [op |-> "args", movies |-> movies, movie |-> movies[i],
                      limit |-> limit, data |-> <<>>]

NextRelated == Rel_Csv \/ Rel_Optimized \/ Rel_Sqlite

SpecRelated == InitRelated /\ [][NextRelated]_vars

-----------------------------------------------------------------------------
(* search with the filters that no index serves: year, min_rating, max_rating *)

\* six entries whose titles end in a year in parentheses, in two digits in
\* parentheses, in a word after the year, in a year without parentheses, in five
\* digits in parentheses; the ratings are 3.0, 4.0 and 4.5
YearCatalog ==
    << NewMovie(1, <<"Heat", "(1995)">>, <<"Comedy">>, 10, 45),
       NewMovie(2, <<"Heat", "(95)">>, <<"Comedy">>, 10, 40),
       NewMovie(3, <<"(1995)", "Story">>, <<"Drama">>, 10, 30),
       NewMovie(4, <<"Toy", "1995">>, <<"Drama">>, 10, 40),
       NewMovie(5, <<"Toy", "(19955)">>, <<"Comedy">>, 10, 30),
       NewMovie(6, <<"Toy", "(1991)">>, <<"Drama">>, 10, 45) >>

FilterCatalogs == { YearCatalog, Fixture }

\* SearchCriteria._validate for the year and the ratings: both ratings in 0..5 and
\* min_rating <= max_rating (the years drawn are in 1888..current year + 5)
ValidCriteria(c) ==
    /\ c.min_rating # <<>> => 0 <= c.min_rating[1] /\ c.min_rating[1] <= 50
    /\ c.max_rating # <<>> => 0 <= c.max_rating[1] /\ c.max_rating[1] <= 50
    /\ c.min_rating # <<>> /\ c.max_rating # <<>> => c.min_rating[1] <= c.max_rating[1]

FilterCriteria ==
    { c \in [title : {<<>>}, genre : {<<>>, <<"Comedy">>},
             year : {<<>>, <<1995>>, <<1991>>, <<2000>>},
             min_rating : {<<>>, <<30>>, <<40>>, <<45>>},
             max_rating : {<<>>, <<30>>, <<45>>}] : ValidCriteria(c) }

FilterFrame == UNCHANGED <<now, client_class, use_redis, redis_cache, server,
                           memory_cache, pc, last, thread_vars, repo>>

\* search(criteria, PaginationParams(1, 100)) of a repository that has read the list
\* from its file and has built no index yet
F_Search ==
    /\ result.op = "args"
    /\ result' = [op |-> "search", criteria |-> result.criteria, list |-> result.list]
                    @@ search(NoIndex, result.list, result.criteria, 1, 100).answer
    /\ FilterFrame

InitFilter ==
    /\ now = 0
    /\ client_class = "RedisCache"
    /\ use_redis = TRUE
    /\ redis_cache = "None"
    /\ server = [k \in Keys |-> Nil]
    /\ memory_cache = NoMemoryCache
    /\ pc = "idle"
    /\ last = NoCall
    /\ threads = NoThreads
    /\ repo = NoRepo
    /\ \E list \in FilterCatalogs, c \in FilterCriteria :
            result = [op |-> "args", criteria |-> c, list |-> list] @@ Answer(1, 100)

NextFilter == F_Search

SpecFilter == InitFilter /\ [][NextFilter]_vars

-----------------------------------------------------------------------------
(* get_cache_manager called by several tasks of one event loop. A task runs    *)
(* alone from one suspension to the next; the only await of get_cache_manager   *)
(* that waits for the network is the ping of RedisCache.connect.                *)

Tasks == 1..MaxTasks

\* the module global _cache_manager is None
NoManager == 0

IdleTask == [pc |-> "idle", got |-> NoManager, initialized |-> FALSE]

\* a task reaches `return _cache_manager`: what it receives, and whether the
\* initialize() of that object had completed by then
ReturnManager(g, i, done) ==
    [g EXCEPT !.t[i] = [pc |-> "returned", got |-> g.manager,
                        initialized |-> g.manager \in done]]

GcmFrame == UNCHANGED <<now, client_class, server, pc, last, repo, result>>

\* get_cache_manager, lines 151-155, up to its first suspension or its return.
\* With _cache_manager set the object is returned at once. Otherwise the global is
\* bound to a new CacheManager and initialize() runs: RedisCache(), connect(),
\* aioredis.from_url, and the task waits for the ping; when from_url raises, connect
\* leaves _redis unset and initialize() completes without any wait.
G_Call(i, url_fails) ==
    /\ threads.t[i].pc = "idle"
    /\ IF threads.manager # NoManager
       THEN /\ threads' = ReturnManager(threads, i, threads.done)
            /\ UNCHANGED <<use_redis, redis_cache, memory_cache>>
       ELSE LET id == threads.made + 1
                g == [threads EXCEPT !.manager = id, !.made = id]
                init == CacheManager_initialize(client_class, NoMemoryCache, TRUE, now)
            IN  IF url_fails
                THEN /\ threads' = ReturnManager([g EXCEPT !.done = @ \cup {id}], i,
                                                 g.done \cup {id})
                     /\ use_redis' = init.use
                     /\ redis_cache' = init.rc
                     /\ memory_cache' = init.mc
                ELSE /\ threads' = [g EXCEPT !.t[i].pc = "ping"]
                     /\ use_redis' = TRUE
                     /\ redis_cache' = "connecting"
                     /\ memory_cache' = NoMemoryCache
    /\ GcmFrame

\* the ping answers or fails: connect returns, initialize() completes and
\* get_cache_manager returns the global
G_Resume(i, fail) ==
    /\ threads.t[i].pc = "ping"
    /\ LET init == CacheManager_initialize(client_class, memory_cache, fail, now)
           done == threads.done \cup {threads.manager}
       IN  /\ use_redis' = init.use
           /\ redis_cache' = init.rc
           /\ memory_cache' = init.mc
           /\ threads' = ReturnManager([threads EXCEPT !.done = done], i, done)
    /\ GcmFrame

\* the caller has used what it received and may call again
G_Done(i) ==
    /\ threads.t[i].pc = "returned"
    /\ threads' = [threads EXCEPT !.t[i] = IdleTask]
    /\ UNCHANGED <<use_redis, redis_cache, memory_cache>>
    /\ GcmFrame

InitGCM ==
    /\ now = 0
    /\ client_class = "RedisCache"
    /\ use_redis = TRUE
    /\ redis_cache = "None"
    /\ server = [k \in Keys |-> Nil]
    /\ memory_cache = NoMemoryCache
    /\ pc = "idle"
    /\ last = NoCall
    /\ threads = [manager |-> NoManager, made |-> 0, done |-> {},
                  t |-> [i \in Tasks |-> IdleTask]]
    /\ repo = NoRepo /\ result = NoResult

NextGCM ==
    \/ \E i \in Tasks, url_fails \in BOOLEAN : G_Call(i, url_fails)
    \/ \E i \in Tasks, fail \in BOOLEAN : G_Resume(i, fail)
    \/ \E i \in Tasks : G_Done(i)

SpecGCM == InitGCM /\ [][NextGCM]_vars



-----------------------------------------------------------------------------
(* Properties of the CacheManager, checked under Spec *)

ManagerOps == { "get", "set", "delete", "exists", "clear_pattern" }

\* what the service holds for a key, as a client that reaches it reads it
RemoteValue(srv, key) == IF srv[key] = Nil THEN None ELSE json_loads(srv[key])

\* what a MemoryCache holds for a key at time t: the value of an entry not yet expired
LocalValue(mc, key, t) ==
    IF DictHas(mc.cache, key) /\ t < DictGet(mc.cache, key).expiry
    THEN DictGet(mc.cache, key).value
    ELSE None

\* C1: a call of get, set, delete, exists or clear_pattern made in REMOTE_ACTIVE whose
\* remote call raises or fails returns with the manager in LOCAL_ACTIVE, a local cache
\* constructed, and the operation applied to the local cache.
C1_FailoverOnRemoteFailure ==
    (last.op \in ManagerOps /\ last.mode = "redis" /\ last.failed)
        => /\ CacheType = "memory"
           /\ memory_cache.made
           /\ "memory" \in last.touched

\* C2: after initialize() the manager is in REMOTE_ACTIVE only if the connection was
\* established, and a failed connection attempt leaves it in LOCAL_ACTIVE with a
\* MemoryCache constructed.
C2_InitializeSelectsTier ==
    last.op = "initialize"
        => /\ CacheType = "redis" => redis_cache = "connected"
           /\ last.failed => (CacheType = "memory" /\ memory_cache.made)

\* C3: with a remote client that raises on every call, initialize() ends in LOCAL_ACTIVE
\* and every later get and set (ttl not negative) completes on the local tier without
\* raising; set returns true and a get of the same key that follows returns the value.
C3_StubFailover ==
    client_class = "RaisingStub"
        => /\ last.op = "initialize" => CacheType = "memory"
           /\ (last.op \in {"get", "set"} /\ (last.ttl = <<>> \/ last.ttl[1] >= 0))
                => /\ pc = "idle"
                   /\ ~last.raised
                   /\ last.touched = {"memory"}
           /\ (last.op = "set" /\ (last.ttl = <<>> \/ last.ttl[1] >= 0))
                => /\ last.ok
                   /\ CacheManager_get(client_class, use_redis, redis_cache, memory_cache,
                                       server, last.key, FALSE, now).val = last.value

\* C4: once the manager is in LOCAL_ACTIVE no call brings it back to REMOTE_ACTIVE.
C4_NoReturnToRemote == [][CacheType = "memory" => CacheType' # "redis"]_vars

\* C4 witness: the manager failed over while running (its client had connected) and
\* has served a call from the local tier since.
C4_Witness ==
    /\ client_class = "RaisingClient" /\ redis_cache = "connected"
    /\ CacheType = "memory"
    /\ last.op \in ManagerOps /\ last.mode = "memory"

C6_GetReadsActiveTierOnly ==
    last.op = "get"
        => /\ (last.mode = "redis" /\ ~last.failed)
                => /\ last.touched = {"redis"}
                   /\ last.val = RemoteValue(server, last.key)
           /\ last.mode = "memory"
                => /\ last.touched = {"memory"}
                   /\ last.val = LocalValue(memory_cache, last.key, now)

\* C6 witness: a get in REMOTE_ACTIVE that returned the value the service holds.
C6_Witness ==
    /\ last.op = "get" /\ last.mode = "redis" /\ ~last.failed
    /\ last.val = "[1, 2]"

\* the RedisCache.set that reaches the service stores the value iff the expire time is positive
RemoteWriteAccepted(call) == ~call.failed /\ PyOr(call.ttl, RedisDefaultTTL) > 0

\* C7: a set that returns has written the tier that is active and left the other tier
\* as it was, and returns true iff that write succeeded.
C7_SetWritesActiveTierOnly ==
    [][(last'.op = "set" /\ pc' = "idle")
        => /\ CacheType' = "redis"
                => /\ memory_cache' = memory_cache
                   /\ last'.ok <=> RemoteWriteAccepted(last')
                   /\ server' = IF RemoteWriteAccepted(last')
                                THEN [server EXCEPT ![last'.key] = json_dumps(last'.value)]
                                ELSE server
           /\ CacheType' = "memory"
                => /\ server' = server
                   /\ last'.ok
                   /\ DictHas(memory_cache'.cache, last'.key)
                   /\ DictGet(memory_cache'.cache, last'.key).value = last'.value
                   /\ \A k \in DictKeys(memory_cache.cache) \ {last'.key} :
                         /\ DictHas(memory_cache'.cache, k)
                         /\ DictGet(memory_cache'.cache, k) = DictGet(memory_cache.cache, k)
      ]_vars

\* C7 witness: a set that failed over and wrote the local cache while the service
\* still holds a key.
C7_Witness ==
    /\ last.op = "set" /\ pc = "idle" /\ last.ok
    /\ last.mode = "redis" /\ CacheType = "memory"
    /\ \E k \in Keys : server[k] # Nil

\* C8: delete tries every tier that was ever instantiated, also after a failover, and
\* returns true iff the key was removed from at least one of them.
C8_DeleteReportsRemoval ==
    [][last'.op = "delete"
        => /\ redis_cache # "None" => "redis" \in last'.touched
           /\ memory_cache.made => "memory" \in last'.touched
           /\ last'.ok <=> \/ (server[last'.key] # Nil /\ server'[last'.key] = Nil)
                           \/ (DictHas(memory_cache.cache, last'.key)
                               /\ ~DictHas(memory_cache'.cache, last'.key))
      ]_vars

-----------------------------------------------------------------------------
(* Properties of the MemoryCache, checked under SpecMC *)

\* C9: whenever a set has returned, the cache holds at most max_size entries.
C9_AtMostMaxSize ==
    pc = "idle" => Len(memory_cache.cache) <= memory_cache.max_size

\* C9 witness: a set has returned and left max_size - 1 entries behind.
C9_Witness ==
    /\ last.op = "mc_set" /\ pc = "idle" /\ last.ok
    /\ Len(memory_cache.cache) = memory_cache.max_size - 1

\* the ttl a caller asked for: the default when it gave none
NominalTTL(ttl) == IF ttl = <<>> THEN DefaultTTL ELSE ttl[1]

\* C10: an entry's expiry is the time of its set plus the ttl, and get returns it and
\* exists reports it exactly while the time is strictly less than that expiry.
C10_VisibleUntilExpiry ==
    [][/\ (last'.op = "mc_set" /\ pc' = "idle")
            => DictGet(memory_cache'.cache, last'.key).expiry = now + NominalTTL(last'.ttl)
       /\ last'.op = "mc_get"
            => last'.val = LocalValue(memory_cache, last'.key, now)
       /\ last'.op = "mc_exists"
            => (last'.ok <=> LocalValue(memory_cache, last'.key, now) # None)
      ]_vars

\* C11: an entry set with ttl=0 is absent on the very next get of its key, no time
\* having passed in between.
C11_ZeroTTLAbsentOnNextGet ==
    [][(/\ last.op = "mc_set" /\ pc = "idle" /\ last.ttl = <<0>>
        /\ last'.op = "mc_get" /\ last'.key = last.key)
        => last'.val = None
      ]_vars

\* C14: a set with a negative ttl fails with an error at the call and stores nothing:
\* the cache holds after the call what it held before.
C14_NegativeTTLRejected ==
    [][(last'.op = "mc_set" /\ last'.ttl # <<>> /\ last'.ttl[1] < 0)
        => /\ last'.raised
           /\ memory_cache'.cache = memory_cache.cache
      ]_vars

\* s occurs in k as a run of consecutive characters
IsSubstring(s, k) == \E i, j \in 0..Len(k) : SubSeq(k, i + 1, j) = s

\* C13: clear_pattern(s) removes exactly the keys that contain s as a substring,
\* returns how many it removed, and leaves every other key with its value and expiry.
C13_ClearPatternRemovesMatches ==
    [][last'.op = "mc_clear_pattern"
        => LET before == memory_cache.cache
               after == memory_cache'.cache
               removed == { k \in DictKeys(before) : ~DictHas(after, k) }
           IN  /\ DictKeys(after) \subseteq DictKeys(before)
               /\ \A k \in DictKeys(before) : k \in removed <=> IsSubstring(last'.key, k)
               /\ last'.count = Cardinality(removed)
               /\ \A k \in DictKeys(after) : DictGet(after, k) = DictGet(before, k)
      ]_vars

\* C13 witness: a clear_pattern has removed one key and left another one in the cache.
C13_Witness ==
    /\ last.op = "mc_clear_pattern" /\ last.count = 1
    /\ Len(memory_cache.cache) = 1

-----------------------------------------------------------------------------
(* Properties of the RedisCache, checked under Spec with the manager in REMOTE_ACTIVE, *)
(* where it hands back what its client returned                                       *)

\* C15: a RedisCache operation that cannot reach the service reports an outcome that
\* differs from a normal result: get does not report the value of an absent key, and
\* set, delete, exists and clear_pattern do not report an ordinary False or 0.
C15_UnreachableIsDistinguishable ==
    (client_class = "RedisCache" /\ last.op \in ManagerOps /\ last.mode = "redis"
        /\ last.failed)
        => \/ last.raised
           \/ /\ last.op = "get" => last.val # None
              /\ last.op \in {"set", "delete", "exists"} => last.ok
              /\ last.op = "clear_pattern" => last.count # 0

-----------------------------------------------------------------------------
(* Properties of the MemoryCache called from several threads, checked under SpecMT *)

\* C12: every read or write of the cache's shared state (the map, its size, the time
\* of the last sweep) is made by a thread that holds the lock.
C12_AccessUnderLock ==
    threads.acc.fields # {} => threads.acc.holder = threads.acc.thread

-----------------------------------------------------------------------------
(* Properties of the repositories, checked under SpecRepo *)

ListOps == { "find_all", "find_popular", "find_highly_rated", "sqlite_find_highly_rated" }

\* the entries of a list that an operation's filter lets through, before they are
\* sorted and paged
Matching(op, list) ==
    IF op \in { "find_highly_rated", "sqlite_find_highly_rated" }
    THEN SelectSeq(list, LAMBDA m : m.average_rating >= 40)
    ELSE list

\* C16: a list operation called with a valid PaginationParams(page, limit) returns
\* positions [(page-1)*limit, (page-1)*limit+limit) of its filtered result, clipped to
\* the length of that result, hence never more than limit items, and its total is the
\* number of entries that match its filter before pagination.
C16_PageOfMatches ==
    (result.op \in ListOps /\ ~result.raised) =>
        LET matches == Len(Matching(result.op, Items(result.list)))
            first == offset(result.page, result.limit)
        IN  /\ Len(result.data) <= result.limit
            /\ Len(result.data) = IF first >= matches THEN 0
                                  ELSE Min(result.limit, matches - first)
            /\ \A k \in DOMAIN result.data :
                  result.data[k] \in { Matching(result.op, Items(result.list))[i] :
                                         i \in 1..matches }
            /\ result.total = matches

\* C17: list-popular over a catalogue of N entries returns the entries ranked
\* (page-1)*limit+1 .. min(page*limit, N) by descending ratings count, with total = N,
\* has_next iff page*limit < N and has_previous iff page > 1.
C17_PopularPage ==
    result.op = "find_popular" =>
        LET catalog == Catalog(repo.file)
            N == Len(catalog)
            ranked == SortedDescending(catalog, "ratings_count")
            ranks == Slice(ranked, offset(result.page, result.limit),
                           offset(result.page, result.limit) + result.limit)
        IN  /\ ~result.raised
            /\ Len(result.data) = Len(ranks)
            /\ \A k \in DOMAIN result.data :
                  /\ result.data[k] \in { catalog[i] : i \in DOMAIN catalog }
                  /\ result.data[k].ratings_count = ranks[k].ratings_count
            /\ \A j, k \in DOMAIN result.data : j # k => result.data[j] # result.data[k]
            /\ result.total = N
            /\ has_next(result) <=> result.page * result.limit < N
            /\ has_previous(result) <=> result.page > 1

\* the words of a title filter that the index holds, and the positions that the index
\* gives for every word of the filter
FilterWords(criteria) == Elems(LowerWords(criteria.title))
CommonPositions(index, criteria) ==
    { p \in UNION { Elems(index.title_lower[w]) : w \in DOMAIN index.title_lower } :
        \A w \in FilterWords(criteria) :
            w \in DOMAIN index.title_lower /\ p \in Elems(index.title_lower[w]) }

\* C18: a search with a title filter takes as candidates the intersection of
\* title_index[word] over the lower-cased words of the filter: when a word is absent
\* from the index or the intersection is empty the search returns an empty result
\* (total 0, no error), and no returned entry has a title that lacks a word of the
\* filter.
C18_TitleIntersection ==
    (result.op = "search" /\ result.criteria.title # <<>> /\ AllMovies(Items(result.list))) =>
        /\ ~result.raised
        /\ CommonPositions(repo.search_index, result.criteria) = {} =>
              result.data = <<>> /\ result.total = 0
        /\ \A k \in DOMAIN result.data :
              FilterWords(result.criteria) \subseteq Elems(TitleTokens(result.data[k]))

\* C19: a search with only a genre filter g returns exactly the entries of the
\* snapshot whose genres contain g, compared case-sensitively, in the order of the
\* snapshot, and nothing when no entry has g; for A{Action,Comedy}, B{Comedy},
\* C{Drama} the genre Comedy returns [A, B].
C19_GenreInSnapshotOrder ==
    (/\ result.op = "search"
     /\ result.criteria.genre # <<>>
     /\ result.criteria = WithGenre(result.criteria.genre[1])
     /\ AllMovies(Items(result.list))) =>
        LET with_g == SelectSeq(Items(result.list),
                                LAMBDA m : result.criteria.genre[1] \in Elems(m.genres))
        IN  /\ ~result.raised
            /\ result.total = Len(with_g)
            /\ result.data = Slice(with_g, offset(result.page, result.limit),
                                   offset(result.page, result.limit) + result.limit)

\* the entry at a 0-based position of a snapshot has a word in its title, or has a
\* genre
RefersToTitle(snapshot, p, w) ==
    /\ p < Len(snapshot)
    /\ IsMovie(snapshot[p + 1])
    /\ w \in Elems(TitleTokens(snapshot[p + 1]))
RefersToGenre(snapshot, p, g) ==
    /\ p < Len(snapshot)
    /\ IsMovie(snapshot[p + 1])
    /\ g \in Elems(snapshot[p + 1].genres)

\* C20: the search index that a filtered query has used was built from the snapshot
\* that is loaded: after a reload of the catalogue every indexed position refers to an
\* entry of the current snapshot that contains the indexed token.
C20_IndexOfLoadedSnapshot ==
    (/\ result.op = "search"
     /\ has_any_filters(result.criteria)
     /\ AllMovies(Items(result.list))) =>
        LET index == repo.search_index
            snapshot == Items(repo.movies_cache)
        IN  /\ index.built
            /\ result.list = repo.movies_cache
            /\ \A w \in DOMAIN index.title_lower : \A p \in Elems(index.title_lower[w]) :
                  RefersToTitle(snapshot, p, w)
            /\ \A g \in DOMAIN index.genre : \A p \in Elems(index.genre[g]) :
                  RefersToGenre(snapshot, p, g)

-----------------------------------------------------------------------------
(* Eviction, lazy expiry and the sweep of the MemoryCache *)

\* the map as line 79 of set leaves it, before _evict_if_needed is called
Stored(mc, key, value, ttl, t) == DictSet(mc.cache, key, value, t + PyOr(ttl, DefaultTTL))

\* C24: when set finds the entry count n at or above max_size, the eviction pass
\* removes exactly max(1, n \div 10) entries, and they are those with the smallest
\* expiry: no entry that survives has an expiry strictly smaller than an evicted one.
C24_EvictionPass ==
    [][LET stored == Stored(memory_cache, last'.key, last'.value, last'.ttl, now)
           n == Len(stored)
           to_remove == IF n \div 10 > 1 THEN n \div 10 ELSE 1
           evicted == { i \in DOMAIN stored :
                           ~DictHas(memory_cache'.cache, stored[i].key) }
       IN  (last'.op = "mc_set" /\ n >= memory_cache.max_size)
            => /\ pc' = "idle"
               /\ Cardinality(evicted) = to_remove
               /\ \A i \in evicted, j \in DOMAIN stored \ evicted :
                     ~(stored[j].expiry < stored[i].expiry)
      ]_vars

\* C25: a get or an exists that finds an entry whose expiry has passed reports the key
\* as absent, and the entry is gone from the map when the call returns.
C25_ExpiredEntryRemoved ==
    [][(/\ last'.op \in {"mc_get", "mc_exists"}
        /\ DictHas(memory_cache.cache, last'.key)
        /\ ~(now < DictGet(memory_cache.cache, last'.key).expiry))
        => /\ last'.val = None /\ ~last'.ok
           /\ ~DictHas(memory_cache'.cache, last'.key)
      ]_vars

\* C30: with a positive ttl, a set that returned true has left the entry in the map
\* with the expiry now + ttl, the passing of time leaves the map as it is, and a get
\* that finds the entry before its expiry returns its value: the get that follows the
\* set before the ttl has elapsed returns the value just written.
C30_GetAfterSet ==
    [][/\ (/\ last'.op = "mc_set" /\ pc' = "idle" /\ last'.ok
           /\ PyOr(last'.ttl, DefaultTTL) > 0)
            => /\ DictHas(memory_cache'.cache, last'.key)
               /\ DictGet(memory_cache'.cache, last'.key)
                     = [key |-> last'.key, value |-> last'.value,
                        expiry |-> now + PyOr(last'.ttl, DefaultTTL)]
       /\ last'.op = "tick" => memory_cache'.cache = memory_cache.cache
       /\ (/\ last'.op = "mc_get"
           /\ DictHas(memory_cache.cache, last'.key)
           /\ now < DictGet(memory_cache.cache, last'.key).expiry)
            => last'.val = DictGet(memory_cache.cache, last'.key).value
      ]_vars

\* C30 witness: time has passed since the set of a key with the default ttl at time 0,
\* and the get of that key has returned the value.
C30_Witness ==
    /\ last.op = "mc_get" /\ last.val = "(1, 2)"
    /\ now > 0
    /\ DictHas(memory_cache.cache, last.key)
    /\ DictGet(memory_cache.cache, last.key).expiry = DefaultTTL

-----------------------------------------------------------------------------
(* The sweep and the lock under several threads, checked under SpecMT and SpecMTLive *)

\* C26: the sweep runs at most once per cleanup interval, also when several threads
\* call get or exists at once: a sweep runs only when CleanupInterval has passed
\* since the sweep before it, and it leaves no entry that is expired at that moment.
C26_SweepOncePerInterval ==
    [][\A i \in Threads :
          (threads.t[i].pc = "sweep" /\ threads'.t[i].pc = "acquire")
            => /\ ~(now - memory_cache.last_cleanup < CleanupInterval)
               /\ \A k \in DOMAIN memory_cache'.cache :
                     now < memory_cache'.cache[k].expiry
      ]_vars

\* C28: every call of set returns in the end, the one that brings the count to
\* max_size included, and no thread waits for the lock for ever: a thread that is
\* inside a call is outside it again later.
C28_CallsReturn ==
    \A i \in Threads : (threads.t[i].pc # "idle") ~> (threads.t[i].pc = "idle")

-----------------------------------------------------------------------------
(* Properties of create, checked under SpecCreate *)

\* no two entries of a list have the same movieId
NoSharedId(movies) == \A i, j \in DOMAIN movies : i # j => movies[i] # movies[j]

\* C21: create with a movieId that an entry of the catalogue already has fails with
\* an error and leaves the list in memory and the stored data as they were; after any
\* sequence of creates no two entries of the catalogue, as a repository loads it,
\* have the same movieId.
C21_CreateKeepsIdsUnique ==
    [][/\ (/\ result'.op = "csv_create"
           /\ \E i \in DOMAIN result'.before : result'.before[i] = result'.id)
            => /\ result'.raised
               /\ repo'.movies_cache = <<result'.before>>
               /\ repo'.file = repo.file
       /\ (/\ result'.op = "sqlite_create"
           /\ result'.id \in { str(n) : n \in repo.table })
            => /\ result'.raised
               /\ repo'.table = repo.table
       /\ result'.op = "csv_create" =>
              (NoSharedId(result'.before) => NoSharedId(load_movies(repo')))
       /\ NoSharedId(read_csv(repo.file)) => NoSharedId(read_csv(repo'.file))
      ]_vars

-----------------------------------------------------------------------------
(* Properties of the Movie entity, checked under SpecMovie *)

\* C22: every Movie that was constructed has five rating counts that sum to its
\* ratings_count and an average rating within [0, 5], and the construction of a
\* Movie whose counts sum to another value than ratings_count fails with an error.
C22_BinsSumToCount ==
    result.op = "Movie" =>
        /\ result.error = "ok" =>
              /\ total_ratings(result.args) = result.args.ratings_count
              /\ 0 <= result.args.average_rating /\ result.args.average_rating <= 50
        /\ total_ratings(result.args) # result.args.ratings_count => result.error # "ok"

\* C22 witness: a Movie with ratings in two bins was constructed.
C22_Witness ==
    /\ result.op = "Movie" /\ result.error = "ok"
    /\ result.args.ratings_count = 2
    /\ result.args.four_to_five_ratings_count = 1


\* C23 get-related(entry, limit) returns at most limit entries, never the entry itself,
\* only entries sharing a genre with it, in descending order of mean rating: the first
\* limit of all the genre-sharing entries sorted by mean rating descending (entries of
\* equal rating in any order).
RelatedOps == { "csv_find_related_movies", "optimized_find_related_movies",
                "sqlite_find_related_movies" }

C23_RelatedByRating ==
    [][ result'.op \in RelatedOps =>
          LET sharing == SharingGenre(result'.movies, result'.movie)
              data == result'.data
          IN  /\ Len(data) = Min(result'.limit, Len(sharing))
              /\ \A p \in DOMAIN data : data[p] \in Elems(sharing)
              /\ \A p, q \in DOMAIN data : p # q => data[p] # data[q]
              /\ \A p, q \in DOMAIN data :
                    p < q => data[p].average_rating >= data[q].average_rating
              /\ \A o \in Elems(sharing) \ Elems(data) :
                    \A p \in DOMAIN data : data[p].average_rating >= o.average_rating
      ]_vars


\* C27 In a filtered search an entry is returned only if it passes every predicate
\* present that no index serves: with a year filter only the entries whose title ends
\* in "(YYYY)" with that year, with min_rating those of mean rating >= min_rating, with
\* max_rating those of mean rating <= max_rating; and every candidate that passes all
\* the predicates present is returned.
YearSuffix(year) ==
    CASE year = 1995 -> "(1995)"
      [] year = 1991 -> "(1991)"
      [] OTHER -> "(2000)"

PassesPresent(m, c) ==
    /\ c.year # <<>> => m.title[Len(m.title)] = YearSuffix(c.year[1])
    /\ c.min_rating # <<>> => m.average_rating >= c.min_rating[1]
    /\ c.max_rating # <<>> => m.average_rating <= c.max_rating[1]

\* the candidates: what the same search returns without the three predicates
Candidates(list, c) ==
    Elems(filter_movies_optimized(NoIndex, list,
            [c EXCEPT !.year = <<>>, !.min_rating = <<>>, !.max_rating = <<>>]).data)

C29_InitializedSingleton ==
    \A i \in Tasks :
        threads.t[i].pc = "returned" =>
            /\ threads.made = 1
            /\ threads.t[i].got = threads.manager
            /\ threads.t[i].got # NoManager
            /\ threads.t[i].initialized

====
